---- MODULE Spec2Model ----
(***************************************************************************)
(* Model of the human-in-loop test runner of ai-test-assistant:            *)
(*   - ApprovalManagerService (services/approval-manager.service.ts): the  *)
(*     two pending tables, the promises handed out and their timers;       *)
(*   - WebSocketServer (websocket/websocket-server.ts): the session        *)
(*     records, the batch and the iterative human-in-loop loops, the       *)
(*     approval and cancel handlers;                                       *)
(*   - WebSocketTestOrchestrator.runIterativeTest                          *)
(*     (websocket/websocket-test-orchestrator.ts): the page-aware loop.    *)
(*                                                                         *)
(* JavaScript runs every handler to its next await on real I/O before any  *)
(* other event is taken.  A handler is one action; the continuation of a   *)
(* coroutine whose awaited promise has settled (a microtask) is the action *)
(* Resume, and no event action is enabled while a Resume is due.           *)
(*                                                                         *)
(* Strings that the code compares by prefix (the table keys) are modelled  *)
(* as sequences of one-character strings.                                  *)
(***************************************************************************)
EXTENDS Integers, Sequences, FiniteSets, TLC

VARIABLES
    pending,                \* approvalState.pending: key -> promise id
    snapshotApprovalState,  \* snapshotApprovalState: key -> promise id
    promises,               \* every promise handed out by the manager, in order
    ret,                    \* last call made on the manager from outside, and its result
    sessions,               \* one record per session id: the TestSession and its loop
    stepExecutor,           \* the orchestrator's own StepExecutorService: browser, page
    synthesis,              \* last element given to a selector synthesizer, and its selector
    prompt,                 \* page snapshot given to formatPageContext, and the text it returned
    activeProviderType      \* LLMManager.activeProviderType, one for the whole process

vars == <<pending, snapshotApprovalState, promises, ret, sessions, stepExecutor,
          synthesis, prompt, activeProviderType>>

----------------------------------------------------------------------------
(* Bounds *)

MaxPromises == 2      \* approval requests made in one run of the manager harness
MaxSteps == 2         \* largest number of steps / intentions the LLM returns

----------------------------------------------------------------------------
(* Strings as character sequences *)

DigitChars == <<"0", "1", "2", "3", "4", "5", "6", "7", "8", "9">>

RECURSIVE NumStr(_)
NumStr(n) == IF n < 10 THEN <<DigitChars[n + 1]>>
             ELSE NumStr(n \div 10) \o <<DigitChars[(n % 10) + 1]>>

StartsWith(str, prefix) ==
    /\ Len(prefix) <= Len(str)
    /\ SubSeq(str, 1, Len(prefix)) = prefix

Colon == <<":">>
SnapshotPrefix == <<"s", "n", "a", "p", "s", "h", "o", "t", ":">>

StepKey(sessionId, stepIndex) == sessionId \o Colon \o NumStr(stepIndex)
SnapshotKey(sessionId, stepIndex) ==
    SnapshotPrefix \o sessionId \o Colon \o NumStr(stepIndex)

----------------------------------------------------------------------------
(* Maps *)

EmptyMap == <<>>
MapSet(m, k, v) == [x \in (DOMAIN m) \cup {k} |-> IF x = k THEN v ELSE m[x]]
MapDelete(m, k) == [x \in (DOMAIN m) \ {k} |-> m[x]]
MapDeleteAll(m, ks) == [x \in (DOMAIN m) \ ks |-> m[x]]

----------------------------------------------------------------------------
(* Promises and timers *)

NoValue == [approved |-> FALSE, modified |-> FALSE, none |-> TRUE]
Response(approved, modified) ==
    [approved |-> approved, modified |-> modified, none |-> FALSE]

\* mutant: a timer is set whatever the timeout is
NewPromise_AlwaysArmed(kind, sessionId, stepIndex, timeoutMs) ==
    [ kind          |-> kind,
      sessionId     |-> sessionId,
      stepIndex     |-> stepIndex,
      timeoutMs     |-> timeoutMs,
      timeoutHandle |-> "armed",
      settled       |-> "pending",
      error         |-> "",
      value         |-> [approved |-> FALSE, modified |-> FALSE, none |-> TRUE],
      settleCalls   |-> 0 ]

\* mutant: no timer is ever set
NewPromise_NeverArmed(kind, sessionId, stepIndex, timeoutMs) ==
    [ kind          |-> kind,
      sessionId     |-> sessionId,
      stepIndex     |-> stepIndex,
      timeoutMs     |-> timeoutMs,
      timeoutHandle |-> "none",
      settled       |-> "pending",
      error         |-> "",
      value         |-> [approved |-> FALSE, modified |-> FALSE, none |-> TRUE],
      settleCalls   |-> 0 ]

NewPromise(kind, sessionId, stepIndex, timeoutMs) ==
    [ kind          |-> kind,
      sessionId     |-> sessionId,
      stepIndex     |-> stepIndex,
      timeoutMs     |-> timeoutMs,
      timeoutHandle |-> IF timeoutMs > 0 THEN "armed" ELSE "none",
      settled       |-> "pending",
      error         |-> "",
      value         |-> NoValue,
      settleCalls   |-> 0 ]

\* resolve(value): only the first resolve/reject of a promise takes effect
Resolve(p, value) ==
    IF p.settled = "pending"
    THEN [p EXCEPT !.settled = "resolved", !.value = value,
                   !.settleCalls = @ + 1]
    ELSE [p EXCEPT !.settleCalls = @ + 1]

Reject(p, error) ==
    IF p.settled = "pending"
    THEN [p EXCEPT !.settled = "rejected", !.error = error,
                   !.settleCalls = @ + 1]
    ELSE [p EXCEPT !.settleCalls = @ + 1]

\* if (pending.timeoutHandle) clearTimeout(pending.timeoutHandle)
ClearTimeout(p) ==
    IF p.timeoutHandle = "armed" THEN [p EXCEPT !.timeoutHandle = "cleared"]
    ELSE p

----------------------------------------------------------------------------
(* ApprovalManagerService, as functions of the manager state               *)
(*   m = [pending, snapshotApprovalState, promises]                        *)

ManagerState == [ pending |-> pending,
                  snapshotApprovalState |-> snapshotApprovalState,
                  promises |-> promises ]

requestApproval(m, sessionId, stepIndex, timeoutMs) ==
    LET id == Len(m.promises) + 1
    IN [m EXCEPT
          !.promises = Append(@, NewPromise("step", sessionId, stepIndex, timeoutMs)),
          !.pending = MapSet(@, StepKey(sessionId, stepIndex), id)]

requestSnapshotApproval(m, sessionId, stepIndex, timeoutMs) ==
    LET id == Len(m.promises) + 1
    IN [m EXCEPT
          !.promises = Append(@, NewPromise("snapshot", sessionId, stepIndex, timeoutMs)),
          !.snapshotApprovalState = MapSet(@, SnapshotKey(sessionId, stepIndex), id)]

\* the value respondToApproval returns
respondToApprovalResult(m, sessionId, stepIndex) ==
    StepKey(sessionId, stepIndex) \in DOMAIN m.pending

\* mutant: the timer of the entry is left armed
respondToApproval_KeepsTimer(m, sessionId, stepIndex, response) ==
    LET key == StepKey(sessionId, stepIndex)
    IN IF key \notin DOMAIN m.pending THEN m
       ELSE LET id == m.pending[key]
            IN [m EXCEPT
                  !.promises[id] = Resolve(@, response),
                  !.pending = MapDelete(@, key)]

\* mutant: the entry is looked up by session, whatever its step index
respondToApproval_AnyStep(m, sessionId, stepIndex, response) ==
    LET keys == {k \in DOMAIN m.pending : StartsWith(k, sessionId \o Colon)}
    IN IF keys = {} THEN m
       ELSE LET key == CHOOSE k \in keys : TRUE
                id == m.pending[key]
            IN [m EXCEPT
                  !.promises[id] = Resolve(ClearTimeout(@), response),
                  !.pending = MapDelete(@, key)]

\* mutant: the whole table is emptied
respondToApproval_DropsAll(m, sessionId, stepIndex, response) ==
    LET key == StepKey(sessionId, stepIndex)
    IN IF key \notin DOMAIN m.pending THEN m
       ELSE LET id == m.pending[key]
            IN [m EXCEPT
                  !.promises[id] = Resolve(ClearTimeout(@), response),
                  !.pending = EmptyMap]

respondToApproval(m, sessionId, stepIndex, response) ==
    LET key == StepKey(sessionId, stepIndex)
    IN IF key \notin DOMAIN m.pending THEN m
       ELSE LET id == m.pending[key]
            IN [m EXCEPT
                  !.promises[id] = Resolve(ClearTimeout(@), response),
                  !.pending = MapDelete(@, key)]

respondToSnapshotApprovalResult(m, sessionId, stepIndex) ==
    SnapshotKey(sessionId, stepIndex) \in DOMAIN m.snapshotApprovalState

respondToSnapshotApproval(m, sessionId, stepIndex, response) ==
    LET key == SnapshotKey(sessionId, stepIndex)
    IN IF key \notin DOMAIN m.snapshotApprovalState THEN m
       ELSE LET id == m.snapshotApprovalState[key]
            IN [m EXCEPT
                  !.promises[id] = Resolve(ClearTimeout(@), response),
                  !.snapshotApprovalState = MapDelete(@, key)]

\* key.startsWith(`${sessionId}:`)
StepKeyOfSession(key, sessionId) == StartsWith(key, sessionId \o Colon)

\* key.startsWith(`snapshot:${sessionId}:`)
SnapshotKeyOfSession(key, sessionId) ==
    StartsWith(key, SnapshotPrefix \o sessionId \o Colon)

cancelSession(m, sessionId) ==
    LET keysToDelete ==
            {k \in DOMAIN m.pending : StepKeyOfSession(k, sessionId)}
        snapshotKeysToDelete ==
            {k \in DOMAIN m.snapshotApprovalState : SnapshotKeyOfSession(k, sessionId)}
        hit == {m.pending[k] : k \in keysToDelete}
                 \cup {m.snapshotApprovalState[k] : k \in snapshotKeysToDelete}
    IN [m EXCEPT
          !.promises = [id \in DOMAIN m.promises |->
                          IF id \in hit
                          THEN Reject(ClearTimeout(m.promises[id]), "Session cancelled")
                          ELSE m.promises[id]],
          !.pending = MapDeleteAll(@, keysToDelete),
          !.snapshotApprovalState = MapDeleteAll(@, snapshotKeysToDelete)]

clearAll(m) ==
    LET hit == {m.pending[k] : k \in DOMAIN m.pending}
                 \cup {m.snapshotApprovalState[k] : k \in DOMAIN m.snapshotApprovalState}
    IN [m EXCEPT
          !.promises = [id \in DOMAIN m.promises |->
                          IF id \in hit
                          THEN Reject(ClearTimeout(m.promises[id]), "Service shutdown")
                          ELSE m.promises[id]],
          !.pending = EmptyMap,
          !.snapshotApprovalState = EmptyMap]

\* mutant: the timeout rejects the promise and leaves the entry in the table
onTimeout_KeepsEntry(m, id) ==
    [m EXCEPT !.promises[id] = Reject([@ EXCEPT !.timeoutHandle = "fired"],
                                      IF @.kind = "step" THEN "Approval timeout"
                                      ELSE "Snapshot approval timeout")]

\* the setTimeout callback of promise id: it deletes the key of its request,
\* whichever entry is stored under it, and rejects its own promise
onTimeout(m, id) ==
    LET p == m.promises[id]
    IN IF p.kind = "step"
       THEN [m EXCEPT
               !.pending = MapDelete(@, StepKey(p.sessionId, p.stepIndex)),
               !.promises[id] = Reject([@ EXCEPT !.timeoutHandle = "fired"],
                                       "Approval timeout")]
       ELSE [m EXCEPT
               !.snapshotApprovalState =
                   MapDelete(@, SnapshotKey(p.sessionId, p.stepIndex)),
               !.promises[id] = Reject([@ EXCEPT !.timeoutHandle = "fired"],
                                       "Snapshot approval timeout")]

SetManager(m) ==
    /\ pending' = m.pending
    /\ snapshotApprovalState' = m.snapshotApprovalState
    /\ promises' = m.promises

----------------------------------------------------------------------------
(* Sessions: the TestSession record of WebSocketServer.activeSessions, the  *)
(* locals of the loop that runs it (runTestWithApproval or                 *)
(* runIterativeTest) and the StepExecutorService it drives.                *)

SessionA == <<"s","e","s","s","i","o","n","_","1","_","a">>
SessionB == <<"s","e","s","s","i","o","n","_","2","_","b">>
\* generateSessionId(): `session_${Date.now()}_${random}`; sessions share only
\* the manager tables, under keys that start with their own id, and Spec runs
\* one session.
SessionIds == {SessionA}

\* step.target: the URL of a goto, the selector of an element the captured
\* page holds, or a selector that no captured page holds
Url == "https://example.com"
PageSelector == "#search"
GhostSelector == "#searchbox"

\* a browser or page handle is named after the session whose execute() call
\* launched it; this.browser = null, this.page = null
NoHandle == <<>>
ClosedExecutor == [browser |-> NoHandle, page |-> NoHandle]

NoStep == [action |-> "none", target |-> "", by |-> "none"]
Step(action, target, by) == [action |-> action, target |-> target, by |-> by]
\* steps the LLM may return: one page-changing action and one that is not
LlmSteps == {Step("goto", Url, "llm"), Step("fill", PageSelector, "llm")}
\* {"action":"error","description":"Cannot find required element on page"}
ErrorStep == Step("error", "", "llm")
\* steps generateNextStep may return: the LLM answer is parsed, and its target
\* is not compared with the snapshot it was given
SynthSteps == LlmSteps \cup {Step("fill", GhostSelector, "llm"), ErrorStep}
\* approval.modifiedStep, the step edited by the client
ModifiedStep == Step("click", PageSelector, "client")

\* PageSnapshot: elements is the set of selectors of its DOM elements
NoSnapshot == [id |-> 0, title |-> "", elements |-> {}]
\* what extractPageElements may find on a page: no element or one
PageElementSets == {{}, {PageSelector}}
PageTitle == "Example Domain"
ErrorTitle == "Error capturing snapshot"
\* what capturePageSnapshot returns when a page exists: the page's title and
\* elements, or the minimal snapshot of its catch block
ErrorCapture == [title |-> ErrorTitle, elements |-> {}]
Captures == {[title |-> PageTitle, elements |-> e] : e \in PageElementSets}
               \cup {ErrorCapture}

IdleSession ==
    [ state        |-> "idle",      \* session.state
      pc           |-> "idle",      \* where the loop is suspended
      mode         |-> "none",      \* "batch" or "iterative"
      timeoutMs    |-> 0,           \* approvalTimeoutSeconds * 1000
      showSnapshotsForApproval |-> FALSE, \* iterative: onSnapshotApproval is passed
      inActiveSessions |-> FALSE,   \* activeSessions.has(sessionId)
      generatedSteps |-> <<>>,      \* batch: steps returned by generateSteps
      intentions   |-> <<>>,        \* iterative: "nav" (has a keyword) or "act"
      i            |-> 0,           \* loop index
      awaiting     |-> 0,           \* promise the loop awaits
      steps        |-> <<>>,        \* session.steps (iterative: pushed one by one)
      contexts     |-> <<>>,        \* iterative: snapshot each step was synthesized with
      results      |-> <<>>,        \* session.results
      executedSteps |-> <<>>,       \* runIterativeTest: executedSteps
      runResults   |-> <<>>,        \* runIterativeTest: results
      status       |-> "none",      \* runIterativeTest: status; execute: overallStatus
      fatalError   |-> "",          \* runIterativeTest: error of the outer catch
      llmResponse  |-> [arrived |-> FALSE, content |-> <<>>],
                                    \* the answer to the intent prompt, in flight
      currentPageSnapshot |-> NoSnapshot,
      snapshots    |-> 0,           \* snapshots captured so far
      step         |-> NoStep,      \* step being approved / executed
      launching    |-> FALSE,       \* execute() found no open browser
      executorInMap |-> FALSE,      \* sessionExecutors.has(sessionId)
      browserOpen  |-> FALSE,       \* the session's executor has browser and page
      orphanBrowsers |-> 0,         \* browsers open on executors the session dropped
      generated    |-> 0,           \* steps synthesized by generateNextStep
      requested    |-> 0,           \* approval requests made
      executions   |-> 0,           \* driver executions started
      inFlight     |-> 0,           \* driver executions started and not yet returned
      driverFailed |-> FALSE,       \* the driver returned a failed result
      cancelSignal |-> FALSE,       \* handleCancelSession ran for the session
      actionPage   |-> NoHandle,    \* page the driver action in flight runs on
      driverPages  |-> <<>>,        \* page of every driver action of the session
      events       |-> <<>> ]       \* events emitted to the client

Event(type, stepIndex, status) ==
    [type |-> type, stepIndex |-> stepIndex, status |-> status]
Emit(ss, ev) == [ss EXCEPT !.events = Append(@, ev)]

Result(step, status, from) == [step |-> step, status |-> status, from |-> from]
\* execute() returned no result for the step: result.steps[0] is undefined
UndefinedResult == Result(NoStep, "undefined", "none")

----------------------------------------------------------------------------
(* The manager driven directly through its public methods, with any        *)
(* session-id string and step index a caller may pass.                     *)

ApiSessionIds == { <<"a">>, <<"a", ":", "1">>, <<"b">> }
ApiStepIndices == {0, 1}
ApiTimeouts == {0, 50}
ApiResponses == {Response(TRUE, FALSE), Response(FALSE, FALSE)}

NoCall == [op |-> "none", value |-> FALSE]
NoSynthesis == [by |-> "none", element |-> <<>>, selector |-> <<>>]
NoPrompt == [snapshot |-> [elements |-> <<>>], formatted |-> FALSE, text |-> <<>>]
\* initializeDefaultProviders: the default active provider
DefaultProvider == "ollama"
Call(op, value) == [op |-> op, value |-> value]

Init ==
    /\ pending = EmptyMap
    /\ snapshotApprovalState = EmptyMap
    /\ promises = <<>>
    /\ ret = NoCall
    /\ sessions = [s \in SessionIds |-> IdleSession]
    /\ stepExecutor = ClosedExecutor
    /\ synthesis = NoSynthesis
    /\ prompt = NoPrompt
    /\ activeProviderType = DefaultProvider

ApiRequestApproval(sessionId, stepIndex, timeoutMs) ==
    /\ Len(promises) < MaxPromises
    /\ SetManager(requestApproval(ManagerState, sessionId, stepIndex, timeoutMs))
    /\ ret' = Call("requestApproval", FALSE)
    /\ UNCHANGED <<sessions, stepExecutor, synthesis, prompt, activeProviderType>>

ApiRequestSnapshotApproval(sessionId, stepIndex, timeoutMs) ==
    /\ Len(promises) < MaxPromises
    /\ SetManager(requestSnapshotApproval(ManagerState, sessionId, stepIndex, timeoutMs))
    /\ ret' = Call("requestSnapshotApproval", FALSE)
    /\ UNCHANGED <<sessions, stepExecutor, synthesis, prompt, activeProviderType>>

ApiRespondToApproval(sessionId, stepIndex, response) ==
    /\ SetManager(respondToApproval(ManagerState, sessionId, stepIndex, response))
    /\ ret' = Call("respondToApproval",
                   respondToApprovalResult(ManagerState, sessionId, stepIndex))
    /\ UNCHANGED <<sessions, stepExecutor, synthesis, prompt, activeProviderType>>

ApiRespondToSnapshotApproval(sessionId, stepIndex, response) ==
    /\ SetManager(respondToSnapshotApproval(ManagerState, sessionId, stepIndex, response))
    /\ ret' = Call("respondToSnapshotApproval",
                   respondToSnapshotApprovalResult(ManagerState, sessionId, stepIndex))
    /\ UNCHANGED <<sessions, stepExecutor, synthesis, prompt, activeProviderType>>

ApiCancelSession(sessionId) ==
    /\ SetManager(cancelSession(ManagerState, sessionId))
    /\ ret' = Call("cancelSession", FALSE)
    /\ UNCHANGED <<sessions, stepExecutor, synthesis, prompt, activeProviderType>>

ApiClearAll ==
    /\ SetManager(clearAll(ManagerState))
    /\ ret' = Call("clearAll", FALSE)
    /\ UNCHANGED <<sessions, stepExecutor, synthesis, prompt, activeProviderType>>

\* a timer set by requestApproval / requestSnapshotApproval expires
ApiTimeout(id) ==
    /\ id \in DOMAIN promises
    /\ promises[id].timeoutHandle = "armed"
    /\ SetManager(onTimeout(ManagerState, id))
    /\ ret' = Call("timeout", FALSE)
    /\ UNCHANGED <<sessions, stepExecutor, synthesis, prompt, activeProviderType>>

ManagerNext ==
    \/ \E sid \in ApiSessionIds, i \in ApiStepIndices, t \in ApiTimeouts :
          ApiRequestApproval(sid, i, t)
    \/ \E sid \in ApiSessionIds, i \in ApiStepIndices, t \in ApiTimeouts :
          ApiRequestSnapshotApproval(sid, i, t)
    \/ \E sid \in ApiSessionIds, i \in ApiStepIndices, r \in ApiResponses :
          ApiRespondToApproval(sid, i, r)
    \/ \E sid \in ApiSessionIds, i \in ApiStepIndices, r \in ApiResponses :
          ApiRespondToSnapshotApproval(sid, i, r)
    \/ \E sid \in ApiSessionIds : ApiCancelSession(sid)
    \/ ApiClearAll
    \/ \E id \in DOMAIN promises : ApiTimeout(id)

ManagerSpec == Init /\ [][ManagerNext]_vars

\* Node fires every armed timer that is not cleared
ManagerFairSpec ==
    ManagerSpec /\ \A id \in 1 .. MaxPromises : WF_vars(ApiTimeout(id))

----------------------------------------------------------------------------
(* WebSocketTestOrchestrator: session executors *)

Out(m, ss) == [m |-> m, ss |-> ss]

\* getSessionExecutor: a new StepExecutorService (no browser yet) unless the
\* map holds one; an executor that was dropped from the map keeps the browser
\* it has open
getSessionExecutor(ss) ==
    IF ss.executorInMap THEN ss
    ELSE [ss EXCEPT !.executorInMap = TRUE, !.browserOpen = FALSE,
                    !.orphanBrowsers = @ + (IF ss.browserOpen THEN 1 ELSE 0)]

\* closeSessionExecutor: closes the browser of the executor found in the map
closeSessionExecutor(ss) ==
    IF ss.executorInMap
    THEN [ss EXCEPT !.executorInMap = FALSE, !.browserOpen = FALSE]
    ELSE ss

\* StepExecutorService.execute is entered: it launches a browser when none is open
StartExecute(ss, pc) ==
    [ss EXCEPT !.pc = pc, !.launching = ~ss.browserOpen, !.executions = @ + 1,
               !.inFlight = @ + 1]

\* outcomes of execute({steps: [step]}): a passed or failed result (performAction
\* throws 'Unsupported action' for the error step), or no result at all when
\* the browser could not be launched
ExecOutcomes(ss) ==
    (IF ss.step.action = "error" THEN {"failed"} ELSE {"passed", "failed"})
       \cup (IF ss.launching THEN {"noresult"} ELSE {})

\* the executor after execute returned (persistent browser: left open)
AfterExecute(ss, outcome) ==
    [ss EXCEPT !.launching = FALSE, !.inFlight = @ - 1,
               !.browserOpen = IF ss.launching THEN outcome # "noresult" ELSE @]

----------------------------------------------------------------------------
(* WebSocketServer.runTestWithApproval: batch mode *)

\* mark the session completed, emit session:completed, finally close the executor
BatchComplete(m, ss) ==
    Out(m, closeSessionExecutor(
             Emit(Emit([ss EXCEPT !.state = "completed", !.pc = "done",
                                  !.awaiting = 0, !.step = NoStep],
                       Event("session:status", 0, "completed")),
                  Event("session:completed", 0, ""))))

\* mutant: every request of the loop is made for index 0
BatchLoop_SameKey(m, sid, ss, i) ==
    IF i < Len(ss.generatedSteps)
    THEN LET s1 == Emit(Emit([ss EXCEPT !.i = i, !.state = "awaiting_approval"],
                             Event("session:status", i, "awaiting_approval")),
                        Event("step:approval_request", i, ""))
         IN Out(requestApproval(m, sid, 0, ss.timeoutMs),
                [s1 EXCEPT !.pc = "b_wait",
                           !.awaiting = Len(m.promises) + 1,
                           !.requested = @ + 1,
                           !.step = ss.generatedSteps[i + 1]])
    ELSE BatchComplete(m, [ss EXCEPT !.i = i])

\* the head of `for (let i = 0; i < steps.length; i++)`: ask approval for step i
BatchLoop(m, sid, ss, i) ==
    IF i < Len(ss.generatedSteps)
    THEN LET s1 == Emit(Emit([ss EXCEPT !.i = i, !.state = "awaiting_approval"],
                             Event("session:status", i, "awaiting_approval")),
                        Event("step:approval_request", i, ""))
         IN Out(requestApproval(m, sid, i, ss.timeoutMs),
                [s1 EXCEPT !.pc = "b_wait",
                           !.awaiting = Len(m.promises) + 1,
                           !.requested = @ + 1,
                           !.step = ss.generatedSteps[i + 1]])
    ELSE BatchComplete(m, [ss EXCEPT !.i = i])

\* mutant: executeStep is started and not awaited
BatchResume_FireAndForget(m, sid, ss) ==
    LET p == m.promises[ss.awaiting]
    IN IF p.settled = "resolved" /\ p.value.approved
       THEN BatchLoop(m, sid,
                      StartExecute(getSessionExecutor([ss EXCEPT !.state = "executing"]),
                                   "b_exec"),
                      ss.i + 1)
       ELSE BatchLoop(m, sid,
                      Emit(ss, Event("step:execution_update", ss.i, "skipped")),
                      ss.i + 1)

\* the awaited requestApproval settled
BatchResume(m, sid, ss) ==
    LET p == m.promises[ss.awaiting]
    IN IF p.settled = "resolved"
       THEN IF ~p.value.approved
            THEN \* rejected by the user: emit a skipped update and continue
                 BatchLoop(m, sid,
                           Emit(ss, Event("step:execution_update", ss.i, "skipped")),
                           ss.i + 1)
            ELSE LET stepToExecute == IF p.value.modified THEN ModifiedStep
                                      ELSE ss.generatedSteps[ss.i + 1]
                     s1 == getSessionExecutor(
                              [ss EXCEPT !.state = "executing", !.step = stepToExecute])
                 IN Out(m, StartExecute(
                              Emit(Emit(s1, Event("session:status", ss.i, "executing")),
                                   Event("step:execution_update", ss.i, "started")),
                              "b_exec"))
       ELSE \* catch: the wait was rejected (timeout, cancel, shutdown)
            BatchLoop(m, sid,
                      Emit(ss, Event("step:execution_update", ss.i, "failed")),
                      ss.i + 1)

\* mutant: a failed execution is reported by no update
BatchAfterExecute_SilentFailure(m, sid, ss, outcome) ==
    LET s1 == AfterExecute(ss, outcome)
    IN IF outcome # "passed"
       THEN BatchLoop(m, sid, s1, ss.i + 1)
       ELSE BatchLoop(m, sid,
                      Emit([s1 EXCEPT !.results =
                                 Append(@, Result(ss.step, outcome, "driver"))],
                           Event("step:execution_update", ss.i, "completed")),
                      ss.i + 1)

\* testOrchestrator.executeStep returned (or threw 'No results returned')
BatchAfterExecute(m, sid, ss, outcome) ==
    LET s1 == AfterExecute(ss, outcome)
    IN IF outcome = "noresult"
       THEN BatchLoop(m, sid,
                      Emit(s1, Event("step:execution_update", ss.i, "failed")),
                      ss.i + 1)
       ELSE BatchLoop(m, sid,
                      Emit([s1 EXCEPT !.results =
                                 Append(@, Result(ss.step, outcome, "driver")),
                               !.driverFailed = @ \/ outcome = "failed"],
                           Event("step:execution_update", ss.i,
                                 IF outcome = "passed" THEN "completed" ELSE "failed")),
                      ss.i + 1)

----------------------------------------------------------------------------
(* runIterativeTest and its caller runIterativeTestWithApproval *)

\* mutant: no action counts as page-changing
isPageChangingAction_None(action) == action \in {}

isPageChangingAction(action) ==
    action \in {"click", "submit", "goto", "select", "check", "uncheck"}

\* runIterativeTest returns `status`; the server maps it onto session.state,
\* emits session:completed and closes the executor
IterFinish(m, ss, status) ==
    Out(m, closeSessionExecutor(
             Emit([ss EXCEPT !.status = status,
                             !.state = IF status = "completed" THEN "completed"
                                       ELSE "cancelled",
                             !.pc = "done", !.awaiting = 0, !.step = NoStep],
                  Event("session:completed", 0, status))))

\* mutant: the catch records nothing
IterCatch_NoResult(m, ss) ==
    IterFinish(m, ss, "failed")

\* catch (error) of one intention: a failed result is recorded, the loop breaks
IterCatch(m, ss) ==
    IterFinish(m,
               [ss EXCEPT !.runResults =
                     Append(@, Result(Step("error", "", "catch"), "failed", "caught"))],
               "failed")

\* mutant: the navigation path is taken whether or not a snapshot exists
IterLoop_IgnoresSnapshot(m, ss, i) ==
    IF i >= Len(ss.intentions)
    THEN IterFinish(m, [ss EXCEPT !.i = i], ss.status)
    ELSE LET needsNavigation == ss.intentions[i + 1] = "nav" \/ i = 0
         IN IF needsNavigation
            THEN Out(m, [ss EXCEPT !.i = i, !.pc = "i_navsynth", !.step = NoStep])
            ELSE Out(m, [ss EXCEPT !.i = i, !.pc = "i_synth", !.step = NoStep])

\* the head of `for (let i = 0; i < intentions.length; i++)`
IterLoop(m, ss, i) ==
    IF i >= Len(ss.intentions)
    THEN IterFinish(m, [ss EXCEPT !.i = i], ss.status)
    ELSE LET needsNavigation == ss.intentions[i + 1] = "nav" \/ i = 0
         IN IF needsNavigation /\ ss.currentPageSnapshot = NoSnapshot
            THEN Out(m, [ss EXCEPT !.i = i, !.pc = "i_navsynth", !.step = NoStep])
            ELSE Out(m, [ss EXCEPT !.i = i, !.pc = "i_synth", !.step = NoStep])

\* generateNextStep returned `step`; onStepGenerated asks for approval
IterStepGenerated(m, sid, ss, step) ==
    LET stepIndex == Len(ss.steps)
        context == IF ss.pc = "i_navsynth" THEN NoSnapshot
                   ELSE ss.currentPageSnapshot
        s1 == Emit([ss EXCEPT !.steps = Append(@, step), !.step = step,
                              !.contexts = Append(@, context),
                              !.generated = @ + 1],
                   Event("step:approval_request", stepIndex, ""))
    IN Out(requestApproval(m, sid, stepIndex, ss.timeoutMs),
           [s1 EXCEPT !.pc = IF ss.pc = "i_navsynth" THEN "i_navwait" ELSE "i_wait",
                      !.awaiting = Len(m.promises) + 1,
                      !.requested = @ + 1])

\* onStepGenerated returned approval.approved, or threw
IterResume(m, ss) ==
    LET p == m.promises[ss.awaiting]
    IN IF p.settled = "resolved"
       THEN IF ~p.value.approved
            THEN IterFinish(m, ss, "cancelled")      \* status = 'cancelled'; break
            ELSE Out(m, StartExecute(ss, IF ss.pc = "i_navwait" THEN "i_navexec"
                                         ELSE "i_exec"))
       ELSE IterCatch(m, ss)

\* mutant: a failed result does not break out of the loop
IterAfterExecute_NoBreak(m, ss, outcome) ==
    LET s1 == AfterExecute(ss, outcome)
        r == Result(ss.step, outcome, "driver")
        s2 == Emit([s1 EXCEPT !.executedSteps = Append(@, ss.step),
                              !.runResults = Append(@, r),
                              !.results = Append(@, r),
                              !.driverFailed = @ \/ outcome = "failed",
                              !.status = IF outcome = "failed" THEN "failed" ELSE @],
                   Event("step:execution_update", Len(ss.results),
                         IF outcome = "passed" THEN "completed" ELSE "failed"))
    IN IF outcome = "noresult"
       THEN IterCatch(m, [s1 EXCEPT !.executedSteps = Append(@, ss.step),
                                    !.runResults = Append(@, UndefinedResult),
                                    !.results = Append(@, UndefinedResult)])
       ELSE IF ss.pc = "i_navexec"
            THEN IF ~s2.browserOpen THEN IterCatch(m, s2)
                 ELSE Out(m, [s2 EXCEPT !.pc = "i_navsnap"])
            ELSE IF isPageChangingAction(ss.step.action)
                 THEN Out(m, [s2 EXCEPT !.pc = "i_settle"])
                 ELSE IterLoop(m, s2, ss.i + 1)

\* executor.execute returned for the step of intention i
IterAfterExecute(m, ss, outcome) ==
    LET s1 == AfterExecute(ss, outcome)
    IN IF outcome = "noresult"
       THEN \* steps[0] is undefined: it is pushed, then reading its status throws
            IterCatch(m, [s1 EXCEPT !.executedSteps = Append(@, ss.step),
                                    !.runResults = Append(@, UndefinedResult),
                                    !.results = Append(@, UndefinedResult)])
       ELSE LET r == Result(ss.step, outcome, "driver")
                s2 == Emit([s1 EXCEPT !.executedSteps = Append(@, ss.step),
                                      !.runResults = Append(@, r),
                                      !.results = Append(@, r)],
                           Event("step:execution_update", Len(ss.results),
                                 IF outcome = "passed" THEN "completed" ELSE "failed"))
            IN IF outcome = "failed"
               THEN IterFinish(m, [s2 EXCEPT !.driverFailed = TRUE], "failed")
               ELSE IF ss.pc = "i_navexec"
                    THEN \* capturePageSnapshot throws when there is no page
                         IF ~s2.browserOpen THEN IterCatch(m, s2)
                         ELSE Out(m, [s2 EXCEPT !.pc = "i_navsnap"])
                    ELSE IF isPageChangingAction(ss.step.action)
                         THEN Out(m, [s2 EXCEPT !.pc = "i_settle"])
                         ELSE IterLoop(m, s2, ss.i + 1)

\* the 500 ms settle delay elapsed: capturePageSnapshot is entered, and throws
\* 'No active page available for snapshot' when the executor has no page
IterSettled(m, ss) ==
    IF ~ss.browserOpen THEN IterCatch(m, ss)
    ELSE Out(m, [ss EXCEPT !.pc = "i_snap"])

\* mutant: after the snapshot of a navigation-only intention the loop does not
\* `continue` but synthesizes a second step for the same intention
IterSnapshot_NoContinue(m, ss, capture) ==
    LET s1 == Emit([ss EXCEPT !.snapshots = @ + 1,
                              !.currentPageSnapshot =
                                  [id |-> ss.snapshots + 1, title |-> capture.title,
                                   elements |-> capture.elements]],
                   Event("snapshot:captured", Len(ss.steps), ""))
    IN IF ss.pc = "i_navsnap"
       THEN Out(m, [s1 EXCEPT !.pc = "i_synth", !.step = NoStep])
       ELSE IterLoop(m, s1, ss.i + 1)

\* capturePageSnapshot returned a snapshot; onSnapshotCaptured notifies the
\* client, and runIterativeTest has no call of options.onSnapshotApproval
IterSnapshot(m, ss, capture) ==
    LET s1 == Emit([ss EXCEPT !.snapshots = @ + 1,
                              !.currentPageSnapshot =
                                  [id |-> ss.snapshots + 1, title |-> capture.title,
                                   elements |-> capture.elements]],
                   Event("snapshot:captured", Len(ss.steps), ""))
    IN IF ss.pc = "i_navsnap" /\ ss.intentions[ss.i + 1] # "nav"
       THEN Out(m, [s1 EXCEPT !.pc = "i_synth", !.step = NoStep])
       ELSE IterLoop(m, s1, ss.i + 1)

----------------------------------------------------------------------------
(* The server: actions *)

ServerResponses == {Response(TRUE, FALSE), Response(TRUE, TRUE), Response(FALSE, FALSE)}
TimeoutSeconds == {0, 300}
StepLists == UNION {[1 .. n -> LlmSteps] : n \in 0 .. MaxSteps}

\* The LLM response to the intent prompt, as a sequence of tokens: brackets,
\* commas, a markdown fence, a string literal with a navigation keyword ("nav")
\* or without one ("act"), and any other text ("x").
Fence == "fence"
ResponseTokens == {"[", "]", ",", "nav", "act", "x", Fence}
MaxResponseLen == 2 * MaxSteps + 1
LlmResponses == UNION {[1 .. n -> ResponseTokens] : n \in 0 .. MaxResponseLen}

\* the two replace() calls drop every markdown fence
Cleaned(response) == SelectSeq(response, LAMBDA tok : tok # Fence)

\* index of the first tok of str at or after position from, 0 when none
FirstIndex(str, tok, from) ==
    IF \E j \in from .. Len(str) : str[j] = tok
    THEN CHOOSE j \in from .. Len(str) :
            /\ str[j] = tok
            /\ \A k \in from .. j - 1 : str[k] # tok
    ELSE 0

\* cleaned.match with the lazy bracket pattern: from the first opening bracket
\* to the first closing bracket after it; no match is the empty sequence
JsonMatch(cleaned) ==
    LET a == FirstIndex(cleaned, "[", 1)
        b == IF a = 0 THEN 0 ELSE FirstIndex(cleaned, "]", a + 1)
    IN IF b = 0 THEN <<>> ELSE SubSeq(cleaned, a, b)

\* JSON.parse accepts the text of an array: values separated by commas
IsJsonArray(text) ==
    LET content == SubSeq(text, 2, Len(text) - 1)
    IN \/ content = <<>>
       \/ /\ Len(content) % 2 = 1
          /\ \A j \in DOMAIN content :
                IF j % 2 = 1 THEN content[j] \in {"nav", "act"} ELSE content[j] = ","

JsonArrayValues(text) ==
    LET content == SubSeq(text, 2, Len(text) - 1)
    IN SelectSeq(content, LAMBDA tok : tok # ",")

Parsed(intentions) == [thrown |-> FALSE, error |-> "", intentions |-> intentions]
Thrown(error) == [thrown |-> TRUE, error |-> error, intentions |-> <<>>]

\* mutant: an empty array is returned as an empty list of intentions
parseScenarioIntent_AcceptsEmpty(response) ==
    LET jsonMatch == JsonMatch(Cleaned(response))
    IN IF jsonMatch = <<>> THEN Thrown("Could not parse intentions from LLM response")
       ELSE IF ~IsJsonArray(jsonMatch) THEN Thrown("Failed to parse intentions")
       ELSE Parsed(JsonArrayValues(jsonMatch))

parseScenarioIntent(response) ==
    LET jsonMatch == JsonMatch(Cleaned(response))
    IN IF jsonMatch = <<>> THEN Thrown("Could not parse intentions from LLM response")
       ELSE IF ~IsJsonArray(jsonMatch) \/ JsonArrayValues(jsonMatch) = <<>>
            THEN Thrown("Failed to parse intentions")
            ELSE Parsed(JsonArrayValues(jsonMatch))

WaitPcs == {"b_wait", "i_navwait", "i_wait"}

\* the loop of session sid awaits a promise that has settled: its continuation
\* is the next thing the event loop runs
ResumeDue(sid) ==
    /\ sessions[sid].pc \in WaitPcs
    /\ promises[sessions[sid].awaiting].settled # "pending"

EventLoopIdle == \A sid \in SessionIds : ~ResumeDue(sid)

SetOut(sid, out) ==
    /\ SetManager(out.m)
    /\ sessions' = [sessions EXCEPT ![sid] = out.ss]
    /\ UNCHANGED <<ret, stepExecutor, synthesis, prompt, activeProviderType>>

\* request.showSnapshotsForApproval reaches runIterativeTestWithApproval only
HandleStartTest(sid, mode, seconds, showSnapshots) ==
    /\ EventLoopIdle
    /\ sessions[sid].pc = "idle"
    /\ LET ss == Emit(Emit([IdleSession EXCEPT
                               !.state = "generating",
                               !.inActiveSessions = TRUE,
                               !.mode = mode,
                               !.timeoutMs = seconds * 1000,
                               !.showSnapshotsForApproval =
                                   mode = "iterative" /\ showSnapshots,
                               !.status = IF mode = "iterative" THEN "completed" ELSE "none",
                               !.pc = IF mode = "iterative" THEN "i_parse" ELSE "b_gen"],
                           Event("session:created", 0, "")),
                      Event("session:status", 0, "generating"))
       IN SetOut(sid, Out(ManagerState, ss))

\* batch: generateSteps returned
StepsGenerated(sid, steps) ==
    /\ EventLoopIdle
    /\ sessions[sid].pc = "b_gen"
    /\ LET ss == Emit([sessions[sid] EXCEPT !.generatedSteps = steps, !.steps = steps,
                                            !.contexts = [j \in DOMAIN steps |-> NoSnapshot],
                                            !.state = "awaiting_approval"],
                      Event("steps:generated", 0, ""))
       IN SetOut(sid, BatchLoop(ManagerState, sid, ss, 0))

\* batch: generateSteps threw; the outer catch marks the session cancelled
StepsGenerationFailed(sid) ==
    /\ EventLoopIdle
    /\ sessions[sid].pc = "b_gen"
    /\ SetOut(sid, Out(ManagerState,
                       closeSessionExecutor(
                          Emit([sessions[sid] EXCEPT !.state = "cancelled", !.pc = "done"],
                               Event("error", 0, "")))))

Resume(sid) ==
    /\ ResumeDue(sid)
    /\ SetOut(sid, IF sessions[sid].mode = "batch"
                   THEN BatchResume(ManagerState, sid, sessions[sid])
                   ELSE IterResume(ManagerState, sessions[sid]))

StepExecuted(sid, outcome) ==
    /\ EventLoopIdle
    /\ sessions[sid].pc \in {"b_exec", "i_navexec", "i_exec"}
    /\ outcome \in ExecOutcomes(sessions[sid])
    /\ SetOut(sid, IF sessions[sid].mode = "batch"
                   THEN BatchAfterExecute(ManagerState, sid, sessions[sid], outcome)
                   ELSE IterAfterExecute(ManagerState, sessions[sid], outcome))

NoResponse == [arrived |-> FALSE, content |-> <<>>]

\* the LLM provider answers the intent prompt: the answer is on its way to the
\* awaiting parseScenarioIntent
LlmRespondedWith(sid, responses) ==
    /\ EventLoopIdle
    /\ sessions[sid].pc = "i_parse"
    /\ ~sessions[sid].llmResponse.arrived
    /\ \E response \in responses :
          sessions' = [sessions EXCEPT
                          ![sid].llmResponse = [arrived |-> TRUE, content |-> response]]
    /\ UNCHANGED <<pending, snapshotApprovalState, promises, ret, stepExecutor, synthesis, prompt, activeProviderType>>

LlmResponded(sid) == LlmRespondedWith(sid, LlmResponses)

\* provider.generate returned: parseScenarioIntent returns the intentions, or
\* throws and the outer catch returns status 'failed'
IntentionsParsed(sid) ==
    /\ EventLoopIdle
    /\ sessions[sid].pc = "i_parse"
    /\ sessions[sid].llmResponse.arrived
    /\ LET parsed == parseScenarioIntent(sessions[sid].llmResponse.content)
           ss == [sessions[sid] EXCEPT !.llmResponse = NoResponse]
       IN IF parsed.thrown
          THEN SetOut(sid, IterFinish(ManagerState,
                                      [ss EXCEPT !.fatalError = parsed.error],
                                      "failed"))
          ELSE SetOut(sid, IterLoop(ManagerState,
                                    getSessionExecutor(
                                       [ss EXCEPT !.intentions = parsed.intentions]),
                                    0))

\* parseScenarioIntent threw before parsing (no provider, or the LLM call
\* failed): the outer catch returns status 'failed'
IntentionsFailed(sid) ==
    /\ EventLoopIdle
    /\ sessions[sid].pc = "i_parse"
    /\ ~sessions[sid].llmResponse.arrived
    /\ SetOut(sid, IterFinish(ManagerState,
                              [sessions[sid] EXCEPT !.fatalError = "LLM call failed"],
                              "failed"))

StepSynthesized(sid, step) ==
    /\ EventLoopIdle
    /\ sessions[sid].pc \in {"i_navsynth", "i_synth"}
    /\ SetOut(sid, IterStepGenerated(ManagerState, sid, sessions[sid], step))

StepSynthesisFailed(sid) ==
    /\ EventLoopIdle
    /\ sessions[sid].pc \in {"i_navsynth", "i_synth"}
    /\ SetOut(sid, IterCatch(ManagerState, sessions[sid]))

PageSettled(sid) ==
    /\ EventLoopIdle
    /\ sessions[sid].pc = "i_settle"
    /\ SetOut(sid, IterSettled(ManagerState, sessions[sid]))

SnapshotCaptured(sid, capture) ==
    /\ EventLoopIdle
    /\ sessions[sid].pc \in {"i_navsnap", "i_snap"}
    /\ SetOut(sid, IterSnapshot(ManagerState, sessions[sid], capture))

\* step:approval from the client
HandleStepApproval(sid, stepIndex, response) ==
    /\ EventLoopIdle
    /\ SetManager(respondToApproval(ManagerState, sid, stepIndex, response))
    /\ UNCHANGED <<sessions, ret, stepExecutor, synthesis, prompt, activeProviderType>>

\* the timer of an approval request expires
ApprovalTimeout(id) ==
    /\ EventLoopIdle
    /\ id \in DOMAIN promises
    /\ promises[id].timeoutHandle = "armed"
    /\ SetManager(onTimeout(ManagerState, id))
    /\ UNCHANGED <<sessions, ret, stepExecutor, synthesis, prompt, activeProviderType>>

\* session:cancel from the client
HandleCancelSession(sid) ==
    /\ EventLoopIdle
    /\ IF sessions[sid].inActiveSessions
       THEN SetOut(sid, Out(cancelSession(ManagerState, sid),
                            closeSessionExecutor(
                               [sessions[sid] EXCEPT !.state = "cancelled",
                                                     !.inActiveSessions = FALSE,
                                                     !.cancelSignal = TRUE])))
       ELSE UNCHANGED vars

Next ==
    \/ \E sid \in SessionIds, mode \in {"batch", "iterative"}, t \in TimeoutSeconds,
          show \in BOOLEAN :
          HandleStartTest(sid, mode, t, show)
    \/ \E sid \in SessionIds, steps \in StepLists : StepsGenerated(sid, steps)
    \/ \E sid \in SessionIds : StepsGenerationFailed(sid)
    \/ \E sid \in SessionIds : Resume(sid)
    \/ \E sid \in SessionIds, o \in {"passed", "failed", "noresult"} : StepExecuted(sid, o)
    \/ \E sid \in SessionIds : LlmResponded(sid)
    \/ \E sid \in SessionIds : IntentionsParsed(sid)
    \/ \E sid \in SessionIds : IntentionsFailed(sid)
    \/ \E sid \in SessionIds, step \in SynthSteps : StepSynthesized(sid, step)
    \/ \E sid \in SessionIds : StepSynthesisFailed(sid)
    \/ \E sid \in SessionIds : PageSettled(sid)
    \/ \E sid \in SessionIds, c \in Captures : SnapshotCaptured(sid, c)
    \/ \E sid \in SessionIds, i \in 0 .. MaxSteps, r \in ServerResponses :
          HandleStepApproval(sid, i, r)
    \/ \E id \in DOMAIN promises : ApprovalTimeout(id)
    \/ \E sid \in SessionIds : HandleCancelSession(sid)

Spec == Init /\ [][Next]_vars

\* Sessions that wait for approval no longer than a timeout.  The answers of
\* the LLM to the intent prompt are a few of each sort: one and two intentions,
\* an empty array, no array, a fenced array.
PositiveTimeoutSeconds == {t \in TimeoutSeconds : t > 0}
TimedResponses ==
    { <<"[", "nav", "]">>, <<"[", "act", ",", "nav", "]">>, <<"[", "]">>, <<"x">>,
      <<Fence, "[", "act", ",", "act", "]", Fence>> }

\* what the server does for session sid without the client: the LLM and the
\* driver answer, the page settles, the loop resumes
ServerStep(sid) ==
    \/ \E steps \in StepLists : StepsGenerated(sid, steps)
    \/ StepsGenerationFailed(sid)
    \/ Resume(sid)
    \/ \E o \in {"passed", "failed", "noresult"} : StepExecuted(sid, o)
    \/ LlmRespondedWith(sid, TimedResponses)
    \/ IntentionsParsed(sid)
    \/ IntentionsFailed(sid)
    \/ \E step \in SynthSteps : StepSynthesized(sid, step)
    \/ StepSynthesisFailed(sid)
    \/ PageSettled(sid)
    \/ \E c \in Captures : SnapshotCaptured(sid, c)

TimerStep == \E id \in DOMAIN promises : ApprovalTimeout(id)

TimedNext ==
    \/ \E sid \in SessionIds, mode \in {"batch", "iterative"},
          t \in PositiveTimeoutSeconds, show \in BOOLEAN :
          HandleStartTest(sid, mode, t, show)
    \/ \E sid \in SessionIds : ServerStep(sid)
    \/ \E sid \in SessionIds, i \in 0 .. MaxSteps, r \in ServerResponses :
          HandleStepApproval(sid, i, r)
    \/ TimerStep
    \/ \E sid \in SessionIds : HandleCancelSession(sid)

\* every LLM and driver call returns, every continuation that is due runs, and
\* Node fires every armed timer that is not cleared; the client is free
FairSpec ==
    /\ Init /\ [][TimedNext]_vars
    /\ \A sid \in SessionIds : WF_vars(ServerStep(sid))
    /\ WF_vars(TimerStep)

\* The server is shut down while sessions run.  WebSocketServer.close()
\* rejects what is pending and closes the sockets: no client event arrives
\* afterwards, the loops of the sessions go on.
Closed == ret.op = "close"

close ==
    /\ EventLoopIdle
    /\ SetManager(clearAll(ManagerState))
    /\ ret' = Call("close", TRUE)
    /\ UNCHANGED <<sessions, stepExecutor, synthesis, prompt, activeProviderType>>

ShutdownNext ==
    \/ /\ ~Closed
       /\ \E sid \in SessionIds, mode \in {"batch", "iterative"}, t \in TimeoutSeconds,
             show \in BOOLEAN : HandleStartTest(sid, mode, t, show)
    \/ /\ ~Closed
       /\ \E sid \in SessionIds, i \in 0 .. MaxSteps, r \in ServerResponses :
             HandleStepApproval(sid, i, r)
    \/ /\ ~Closed
       /\ \E sid \in SessionIds : HandleCancelSession(sid)
    \/ \E sid \in SessionIds : ServerStep(sid)
    \/ TimerStep
    \/ close

ShutdownSpec == Init /\ [][ShutdownNext]_vars

----------------------------------------------------------------------------
(* Sessions started without human-in-loop: runTestWithoutApproval calls     *)
(* runTest, which executes all steps on the orchestrator's own              *)
(* StepExecutorService (this.stepExecutor, not persistent).  Two sessions   *)
(* run concurrently.                                                       *)

DirectSessionIds == {SessionA, SessionB}

DirectOut(ex, ss) == [ex |-> ex, ss |-> ss]

\* runTest returned: session.results = result.executionResult?.results || []
\* (the execution result has no `results` property)
DirectFinish(ex, ss) ==
    DirectOut(ex, Emit([ss EXCEPT !.state = "completed", !.pc = "done",
                                  !.steps = ss.generatedSteps,
                                  !.results = <<>>,
                                  !.actionPage = NoHandle],
                       Event("session:completed", 0, "")))

\* cleanup(), second half: if (this.browser) await this.browser.close()
DirectCleanupBrowser(ex, ss) ==
    IF ex.browser # NoHandle
    THEN DirectOut(ex, [ss EXCEPT !.pc = "d_closebrowser", !.actionPage = NoHandle])
    ELSE DirectFinish(ex, ss)

\* finally { if (!this.persistBrowser) await this.cleanup() }:
\* if (this.page) await this.page.close()
DirectCleanup(ex, ss) ==
    IF ex.page # NoHandle
    THEN DirectOut(ex, [ss EXCEPT !.pc = "d_closepage", !.actionPage = NoHandle])
    ELSE DirectCleanupBrowser(ex, ss)

\* for (const step of request.steps): executeStep reads this.page
DirectExecuteLoop(ex, ss, k) ==
    IF k >= Len(ss.generatedSteps) THEN DirectCleanup(ex, [ss EXCEPT !.i = k])
    ELSE IF ex.page = NoHandle
         THEN \* 'Browser not initialized': a failed result, break
              DirectCleanup(ex, [ss EXCEPT !.i = k, !.status = "failed",
                                   !.runResults = Append(@,
                                       Result(ss.generatedSteps[k + 1], "failed", "nopage"))])
         ELSE DirectOut(ex, [ss EXCEPT !.i = k, !.pc = "d_exec",
                                       !.step = ss.generatedSteps[k + 1],
                                       !.actionPage = ex.page,
                                       !.executions = @ + 1,
                                       !.inFlight = @ + 1])

\* execute(): overallStatus = 'passed'; if (!this.isBrowserOpen()) await
\* this.launchBrowser(...)
DirectExecute(ex, ss) ==
    IF ex.browser # NoHandle /\ ex.page # NoHandle
    THEN DirectExecuteLoop(ex, [ss EXCEPT !.status = "passed"], 0)
    ELSE DirectOut(ex, [ss EXCEPT !.status = "passed", !.pc = "d_launch"])

SetDirect(sid, out) ==
    /\ sessions' = [sessions EXCEPT ![sid] = out.ss]
    /\ stepExecutor' = out.ex
    /\ UNCHANGED <<pending, snapshotApprovalState, promises, ret, synthesis, prompt, activeProviderType>>

DirectInit ==
    /\ pending = EmptyMap
    /\ snapshotApprovalState = EmptyMap
    /\ promises = <<>>
    /\ ret = NoCall
    /\ sessions = [s \in DirectSessionIds |-> IdleSession]
    /\ stepExecutor = ClosedExecutor
    /\ synthesis = NoSynthesis
    /\ prompt = NoPrompt
    /\ activeProviderType = DefaultProvider

\* test:start with humanInLoop unset
HandleStartDirect(sid) ==
    /\ sessions[sid].pc = "idle"
    /\ SetDirect(sid, DirectOut(stepExecutor,
                                Emit([IdleSession EXCEPT !.state = "generating",
                                                         !.inActiveSessions = TRUE,
                                                         !.mode = "direct",
                                                         !.pc = "d_gen"],
                                     Event("session:created", 0, ""))))

DirectStepsGenerated(sid, steps) ==
    /\ sessions[sid].pc = "d_gen"
    /\ SetDirect(sid, DirectExecute(stepExecutor,
                                    [sessions[sid] EXCEPT !.generatedSteps = steps]))

\* generateSteps threw: runTestWithoutApproval marks the session cancelled
DirectGenerationFailed(sid) ==
    /\ sessions[sid].pc = "d_gen"
    /\ SetDirect(sid, DirectOut(stepExecutor,
                                Emit([sessions[sid] EXCEPT !.state = "cancelled",
                                                           !.pc = "done"],
                                     Event("error", 0, ""))))

\* this.browser = await chromium.launch(...); then newPage() is awaited
DirectBrowserLaunched(sid) ==
    /\ sessions[sid].pc = "d_launch"
    /\ SetDirect(sid, DirectOut([stepExecutor EXCEPT !.browser = sid],
                                [sessions[sid] EXCEPT !.pc = "d_newpage"]))

\* launch threw: catch sets status 'error', finally cleans up
DirectLaunchFailed(sid) ==
    /\ sessions[sid].pc = "d_launch"
    /\ SetDirect(sid, DirectCleanup(stepExecutor,
                                     [sessions[sid] EXCEPT !.status = "error"]))

\* this.page = await this.browser.newPage(): the page of the browser this
\* call launched
DirectPageOpened(sid) ==
    /\ sessions[sid].pc = "d_newpage"
    /\ SetDirect(sid, DirectExecuteLoop([stepExecutor EXCEPT !.page = sid],
                                        sessions[sid], 0))

\* mutant: the loop goes on after a failed step
DirectStepDone_NoBreak(sid, outcome) ==
    /\ sessions[sid].pc = "d_exec"
    /\ LET ss == sessions[sid]
           s1 == [ss EXCEPT !.runResults = Append(@, Result(ss.step, outcome, "driver")),
                            !.driverPages = Append(@, ss.actionPage),
                            !.actionPage = NoHandle,
                            !.inFlight = @ - 1,
                            !.status = IF outcome = "failed" THEN "failed" ELSE @]
       IN SetDirect(sid, DirectExecuteLoop(stepExecutor, s1, ss.i + 1))

\* performAction returned or threw for the step in flight
DirectStepDone(sid, outcome) ==
    /\ sessions[sid].pc = "d_exec"
    /\ LET ss == sessions[sid]
           s1 == [ss EXCEPT !.runResults = Append(@, Result(ss.step, outcome, "driver")),
                            !.driverPages = Append(@, ss.actionPage),
                            !.actionPage = NoHandle,
                            !.inFlight = @ - 1,
                            !.status = IF outcome = "failed" THEN "failed" ELSE @]
       IN SetDirect(sid, IF outcome = "failed"
                         THEN DirectCleanup(stepExecutor, s1)
                         ELSE DirectExecuteLoop(stepExecutor, s1, ss.i + 1))

\* page.close() settled: this.page = null
DirectPageClosed(sid) ==
    /\ sessions[sid].pc = "d_closepage"
    /\ SetDirect(sid, DirectCleanupBrowser([stepExecutor EXCEPT !.page = NoHandle],
                                           sessions[sid]))

\* browser.close() settled: this.browser = null
DirectBrowserClosed(sid) ==
    /\ sessions[sid].pc = "d_closebrowser"
    /\ SetDirect(sid, DirectFinish([stepExecutor EXCEPT !.browser = NoHandle],
                                   sessions[sid]))

DirectNext ==
    \/ \E sid \in DirectSessionIds : HandleStartDirect(sid)
    \/ \E sid \in DirectSessionIds, steps \in StepLists : DirectStepsGenerated(sid, steps)
    \/ \E sid \in DirectSessionIds : DirectGenerationFailed(sid)
    \/ \E sid \in DirectSessionIds : DirectBrowserLaunched(sid)
    \/ \E sid \in DirectSessionIds : DirectLaunchFailed(sid)
    \/ \E sid \in DirectSessionIds : DirectPageOpened(sid)
    \/ \E sid \in DirectSessionIds, o \in {"passed", "failed"} : DirectStepDone(sid, o)
    \/ \E sid \in DirectSessionIds : DirectPageClosed(sid)
    \/ \E sid \in DirectSessionIds : DirectBrowserClosed(sid)

DirectSpec == DirectInit /\ [][DirectNext]_vars

----------------------------------------------------------------------------
(* Selector synthesizers.  Attribute values, tags, texts and selectors are  *)
(* sequences of one-character strings.                                     *)
(*   generateOptimalSelector  StepExecutorService (services)               *)
(*   generateSelector         extractPageElements (orchestrator, in page)  *)
(*   inspectionSelector       PageInspectionService.generateSelector       *)

\* an attribute of an element: absent, or present with a value (maybe empty)
NoAttr == [present |-> FALSE, value |-> <<>>]
Attr(value) == [present |-> TRUE, value |-> value]

Digits == {"0", "1", "2", "3", "4", "5", "6", "7", "8", "9"}

\* str.match(/\d{10,}/)
HasDigitRun(str) ==
    \E i \in 1 .. Len(str) - 9 : \A j \in i .. i + 9 : str[j] \in Digits

RECURSIVE TrimStart(_)
TrimStart(str) ==
    IF str # <<>> /\ Head(str) = " " THEN TrimStart(Tail(str)) ELSE str

RECURSIVE TrimEnd(_)
TrimEnd(str) ==
    IF str # <<>> /\ str[Len(str)] = " " THEN TrimEnd(SubSeq(str, 1, Len(str) - 1))
    ELSE str

Trim(str) == TrimEnd(TrimStart(str))

RECURSIVE TakeToken(_)
TakeToken(str) ==
    IF str = <<>> \/ Head(str) = " " THEN <<>>
    ELSE <<Head(str)>> \o TakeToken(Tail(str))

\* str.split(' ').filter(c => c.length > 0)[0], or empty when there is none
FirstClass(str) == TakeToken(TrimStart(str))

DataTestId == <<"d", "a", "t", "a", "-", "t", "e", "s", "t", "i", "d">>
AriaLabel == <<"a", "r", "i", "a", "-", "l", "a", "b", "e", "l">>
NameAttr == <<"n", "a", "m", "e">>
Placeholder == <<"p", "l", "a", "c", "e", "h", "o", "l", "d", "e", "r">>
TypeAttr == <<"t", "y", "p", "e">>
HasTextOpen == <<":", "h", "a", "s", "-", "t", "e", "x", "t", "(", "\"">>
HasTextClose == <<"\"", ")">>

\* `[${name}="${value}"]`
AttributeSelector(name, value) ==
    <<"[">> \o name \o <<"=", "\"">> \o value \o <<"\"", "]">>

\* `${tag}:has-text("${text}")`
HasTextSelector(tag, text) == tag \o HasTextOpen \o text \o HasTextClose

TagButton == <<"b", "u", "t", "t", "o", "n">>
TagInput == <<"i", "n", "p", "u", "t">>
TagA == <<"a">>
TagDiv == <<"d", "i", "v">>
RoleLink == <<"l", "i", "n", "k">>

\* extractElementInfo: only attributes with a non-empty value are kept
Attributes(el) ==
    LET kept(a) == IF a.present THEN a.value ELSE <<>>
    IN [ dataTestid |-> kept(el.dataTestid), id |-> kept(el.id),
         ariaLabel |-> kept(el.ariaLabel), name |-> kept(el.name),
         placeholder |-> kept(el.placeholder), type |-> kept(el.type),
         class |-> kept(el.class) ]

generateOptimalSelector(attributes, tag, text, role) ==
    IF attributes.dataTestid # <<>>
    THEN AttributeSelector(DataTestId, attributes.dataTestid)
    ELSE IF attributes.id # <<>> /\ ~HasDigitRun(attributes.id)
    THEN <<"#">> \o attributes.id
    ELSE IF attributes.ariaLabel # <<>>
    THEN AttributeSelector(AriaLabel, attributes.ariaLabel)
    ELSE IF attributes.name # <<>>
    THEN AttributeSelector(NameAttr, attributes.name)
    ELSE IF attributes.placeholder # <<>>
    THEN AttributeSelector(Placeholder, attributes.placeholder)
    ELSE IF role # <<>> /\ text # <<>> /\ Len(Trim(text)) > 0 /\ Len(text) < 50
            /\ role \in {TagButton, RoleLink}
    THEN HasTextSelector(IF role = TagButton THEN TagButton ELSE TagA, Trim(text))
    ELSE IF text # <<>> /\ Len(Trim(text)) > 0 /\ Len(text) < 50
            /\ tag \in {TagButton, TagA}
    THEN HasTextSelector(tag, Trim(text))
    ELSE IF tag = TagInput /\ attributes.type # <<>>
    THEN IF attributes.name # <<>>
         THEN TagInput \o AttributeSelector(TypeAttr, attributes.type)
                       \o AttributeSelector(NameAttr, attributes.name)
         ELSE TagInput \o AttributeSelector(TypeAttr, attributes.type)
    ELSE IF attributes.class # <<>>
            /\ FirstClass(attributes.class) # <<>>
            /\ ~HasDigitRun(FirstClass(attributes.class))
    THEN <<".">> \o FirstClass(attributes.class)
    ELSE tag

\* generateSelector(el) evaluated in the page on the DOM element
generateSelector(el) ==
    IF el.dataTestid.present
    THEN AttributeSelector(DataTestId, el.dataTestid.value)
    ELSE IF el.id.value # <<>>
    THEN <<"#">> \o el.id.value
    ELSE IF el.ariaLabel.present
    THEN AttributeSelector(AriaLabel, el.ariaLabel.value)
    ELSE IF el.name.present
    THEN AttributeSelector(NameAttr, el.name.value)
    ELSE IF el.class.value # <<>> /\ FirstClass(el.class.value) # <<>>
    THEN <<".">> \o FirstClass(el.class.value)
    ELSE el.tag

FallbackPath == <<"[", "0", "]">>
RoleEquals == <<"r", "o", "l", "e", "=">>
TextEquals == <<"t", "e", "x", "t", "=", "\"">>
RoleTextbox == <<"t", "e", "x", "t", "b", "o", "x">>

\* PageInspectionService.generateSelector(raw, fallbackPath); raw carries tag,
\* role, text and attributes, no name and no selector
inspectionSelector(raw, fallbackPath) ==
    IF raw.dataTestid.value # <<>>
    THEN AttributeSelector(DataTestId, raw.dataTestid.value)
    ELSE IF raw.id.value # <<>>
    THEN <<"#">> \o raw.id.value
    ELSE IF raw.ariaLabel.value # <<>>
    THEN AttributeSelector(AriaLabel, raw.ariaLabel.value)
    ELSE IF raw.role # <<>> /\ raw.text # <<>>
    THEN RoleEquals \o raw.role \o AttributeSelector(NameAttr, raw.text)
    ELSE IF (raw.role = TagButton \/ raw.tag \in {TagButton, TagA}) /\ raw.text # <<>>
    THEN TextEquals \o raw.text \o <<"\"">>
    ELSE IF (raw.tag = TagInput \/ raw.role = RoleTextbox) /\ raw.placeholder.value # <<>>
    THEN AttributeSelector(Placeholder, raw.placeholder.value)
    ELSE IF raw.class.value # <<>> /\ FirstClass(raw.class.value) # <<>>
    THEN <<".">> \o FirstClass(raw.class.value)
    ELSE fallbackPath

\* elements a page may hold
TestIdValues == {NoAttr, Attr(<<>>), Attr(<<"s", "u", "b", "m", "i", "t", "-", "b", "t", "n">>)}
IdValues == {NoAttr, Attr(<<"l", "o", "g", "i", "n">>), Attr(<<"r", "1", "2", "3", "4", "5", "6", "7", "8", "9", "0">>)}
LabelValues == {NoAttr, Attr(<<"S", "e", "a", "r", "c", "h">>)}
NameValues == {NoAttr, Attr(<<"q">>)}
PlaceholderValues == {NoAttr, Attr(<<"E", "m", "a", "i", "l">>)}
TypeValues == {NoAttr, Attr(<<"t", "e", "x", "t">>)}
ClassValues == {NoAttr, Attr(<<"b", "t", "n", " ", "p", "r", "i", "m", "a", "r", "y">>), Attr(<<"f", "o", "c", "u", "s", ":", "o", "u", "t", "l", "i", "n", "e", "-", "n", "o", "n", "e", " ", "b", "t", "n">>), Attr(<<"w", "-", "1", "/", "2">>)}

Elements ==
    [ tag : {TagButton, TagInput, TagDiv},
      role : {<<>>, TagButton},
      text : {<<>>, <<"O", "K">>},
      dataTestid : TestIdValues,
      id : IdValues,
      ariaLabel : LabelValues,
      name : NameValues,
      placeholder : PlaceholderValues,
      type : TypeValues,
      class : ClassValues ]

Synthesized(by, el, selector) == [by |-> by, element |-> el, selector |-> selector]

SetSynthesis(s) ==
    /\ synthesis' = s
    /\ UNCHANGED <<pending, snapshotApprovalState, promises, ret, sessions, stepExecutor,
                   prompt, activeProviderType>>

\* an element of the page, not yet given to a synthesizer
SelectorInit ==
    /\ pending = EmptyMap
    /\ snapshotApprovalState = EmptyMap
    /\ promises = <<>>
    /\ ret = NoCall
    /\ sessions = [s \in SessionIds |-> IdleSession]
    /\ stepExecutor = ClosedExecutor
    /\ synthesis \in {Synthesized("none", el, <<>>) : el \in Elements}
    /\ prompt = NoPrompt
    /\ activeProviderType = DefaultProvider

\* StepExecutorService.extractElementInfo on the element
ExtractElementInfo ==
    /\ synthesis.by = "none"
    /\ LET el == synthesis.element
       IN SetSynthesis(Synthesized("generateOptimalSelector", el,
                          generateOptimalSelector(Attributes(el), el.tag, el.text, el.role)))

\* extractPageElements pushes the element
ExtractPageElement ==
    /\ synthesis.by = "none"
    /\ SetSynthesis(Synthesized("generateSelector", synthesis.element,
                                generateSelector(synthesis.element)))

\* PageInspectionService.createDOMElement on the raw element
CreateDOMElement ==
    /\ synthesis.by = "none"
    /\ SetSynthesis(Synthesized("inspectionSelector", synthesis.element,
                                inspectionSelector(synthesis.element, FallbackPath)))

SelectorNext ==
    \/ ExtractElementInfo
    \/ ExtractPageElement
    \/ CreateDOMElement

SelectorSpec == SelectorInit /\ [][SelectorNext]_vars

----------------------------------------------------------------------------
(* The step synthesizer's prompt (step-synthesizer service): how            *)
(* formatPageContext lists the elements of a snapshot.  The text is a      *)
(* sequence of lines; a selector is the pair of the element's kind and its *)
(* position among the elements of that kind.                               *)

SliceLimit == 10      \* slice(0, 10): elements listed of the buttons, inputs, links

ElementKinds == <<
    [kind |-> "button",   tag |-> "button",   role |-> "", type |-> ""],
    [kind |-> "submit",   tag |-> "input",    role |-> "", type |-> "submit"],
    [kind |-> "input",    tag |-> "input",    role |-> "", type |-> "text"],
    [kind |-> "textarea", tag |-> "textarea", role |-> "", type |-> ""],
    [kind |-> "link",     tag |-> "a",        role |-> "", type |-> ""],
    [kind |-> "select",   tag |-> "select",   role |-> "", type |-> ""],
    [kind |-> "checkbox", tag |-> "input",    role |-> "", type |-> "checkbox"],
    [kind |-> "heading",  tag |-> "h1",       role |-> "", type |-> ""] >>

\* elements of one kind on a page: none, one, or more than the slice keeps
ElementCounts == {0, 1, SliceLimit + 1}

PromptElement(kind, j) ==
    [tag |-> kind.tag, role |-> kind.role, type |-> kind.type,
     selector |-> <<kind.kind, j>>]

RECURSIVE SnapshotElements(_, _)
SnapshotElements(counts, k) ==
    IF k = 0 THEN <<>>
    ELSE SnapshotElements(counts, k - 1)
         \o [j \in 1 .. counts[k] |-> PromptElement(ElementKinds[k], j)]

PromptSnapshots ==
    { [elements |-> SnapshotElements(counts, Len(ElementKinds))] :
        counts \in [DOMAIN ElementKinds -> ElementCounts] }

PromptLine(line, text, count, parts) ==
    [line |-> line, text |-> text, count |-> count, parts |-> parts]

\* formatElement: the selector first, then the attributes the element has
formatElement(element) ==
    <<[part |-> "selector", value |-> element.selector]>>
    \o (IF element.type # "" THEN <<[part |-> "type", value |-> <<element.type>>]>>
        ELSE <<>>)

formatPageContext(snapshot) ==
    LET IsButton(el) == \/ el.role = "button"
                        \/ el.tag = "button"
                        \/ (el.tag = "input" /\ el.type \in {"submit", "button"})
        IsInput(el) == el.tag = "input" /\ el.type \notin {"submit", "button"}
        IsLink(el) == el.tag = "a" \/ el.role = "link"
        IsSelect(el) == el.tag = "select" \/ el.role = "combobox"
        IsCheckbox(el) == el.tag = "input" /\ el.type = "checkbox"
        buttons == SelectSeq(snapshot.elements, IsButton)
        inputs == SelectSeq(snapshot.elements, IsInput)
        links == SelectSeq(snapshot.elements, IsLink)
        selects == SelectSeq(snapshot.elements, IsSelect)
        checkboxes == SelectSeq(snapshot.elements, IsCheckbox)
        Listed(els, n) ==
            [j \in 1 .. n |-> PromptLine("element", "", 0, formatElement(els[j]))]
        Sliced(header, els, more) ==
            IF Len(els) > 0
            THEN <<PromptLine("header", header, Len(els), <<>>)>>
                 \o Listed(els, IF Len(els) < SliceLimit THEN Len(els) ELSE SliceLimit)
                 \o (IF Len(els) > SliceLimit
                     THEN <<PromptLine("more", more, Len(els) - SliceLimit, <<>>)>>
                     ELSE <<>>)
            ELSE <<>>
        Whole(header, els) ==
            IF Len(els) > 0
            THEN <<PromptLine("header", header, Len(els), <<>>)>> \o Listed(els, Len(els))
            ELSE <<>>
    IN  <<PromptLine("text", "CURRENT PAGE CONTEXT:", 0, <<>>),
          PromptLine("text", "AVAILABLE INTERACTIVE ELEMENTS:", 0, <<>>)>>
        \o Sliced("BUTTONS", buttons, "buttons")
        \o Sliced("INPUT FIELDS", inputs, "inputs")
        \o Sliced("LINKS", links, "links")
        \o Whole("DROPDOWNS", selects)
        \o Whole("CHECKBOXES", checkboxes)

\* a snapshot about to be supplied to the synthesizer
PromptInit ==
    /\ pending = EmptyMap
    /\ snapshotApprovalState = EmptyMap
    /\ promises = <<>>
    /\ ret = NoCall
    /\ sessions = [s \in SessionIds |-> IdleSession]
    /\ stepExecutor = ClosedExecutor
    /\ synthesis = NoSynthesis
    /\ prompt \in { [snapshot |-> snapshot, formatted |-> FALSE, text |-> <<>>] :
                      snapshot \in PromptSnapshots }
    /\ activeProviderType = DefaultProvider

\* buildIterativePrompt(pageSnapshot) with a snapshot
BuildIterativePrompt ==
    /\ ~prompt.formatted
    /\ prompt' = [prompt EXCEPT !.formatted = TRUE,
                                !.text = formatPageContext(prompt.snapshot)]
    /\ UNCHANGED <<pending, snapshotApprovalState, promises, ret, sessions, stepExecutor,
                   synthesis, activeProviderType>>

PromptNext == BuildIterativePrompt

PromptSpec == PromptInit /\ [][PromptNext]_vars

----------------------------------------------------------------------------
(* The LLM provider of a session.  LLMManager is one object for the whole   *)
(* process and holds one active provider; a run sets it when it starts and  *)
(* every generator call reads it when it is made.  Two sessions run         *)
(* concurrently; of a session only the calls to the LLM are kept.           *)

\* LLMProviderType values a client may choose; initializeDefaultProviders
\* registers two of them
ProviderChoices == {"ollama", "groq", "openai"}
RegisteredProviders == {"ollama", "groq"}

\* setActiveProvider(type): the new value of activeProviderType
setActiveProvider(active, type) ==
    IF type \notin RegisteredProviders THEN active ELSE type

IdleProviderSession ==
    [ pc          |-> "idle",     \* where the run is suspended
      mode        |-> "none",     \* "steps" (generateSteps) or "iterative"
      llmProvider |-> "none",     \* session.llmProvider
      intentions  |-> 0,          \* iterative: intentions still to be processed
      llmCalls    |-> <<>> ]      \* provider of every generate() call of the session

\* getActiveProvider() followed by provider.generate(...)
LlmCall(ss, active, pc) ==
    [ss EXCEPT !.pc = pc, !.llmCalls = Append(@, active)]

SetProvider(sid, ss, active) ==
    /\ sessions' = [sessions EXCEPT ![sid] = ss]
    /\ activeProviderType' = active
    /\ UNCHANGED <<pending, snapshotApprovalState, promises, ret, stepExecutor,
                   synthesis, prompt>>

ProviderInit ==
    /\ pending = EmptyMap
    /\ snapshotApprovalState = EmptyMap
    /\ promises = <<>>
    /\ ret = NoCall
    /\ sessions = [s \in DirectSessionIds |-> IdleProviderSession]
    /\ stepExecutor = ClosedExecutor
    /\ synthesis = NoSynthesis
    /\ prompt = NoPrompt
    /\ activeProviderType = DefaultProvider

\* handleStartTest to the first await of the run: generateSteps(scenario,
\* llmProvider) and runIterativeTest set the active provider, and the first
\* generator call (generateSteps, parseScenarioIntent) reads it at once
ProviderStartTest(sid, mode, provider) ==
    /\ sessions[sid].pc = "idle"
    /\ LET active == setActiveProvider(activeProviderType, provider)
           ss == [IdleProviderSession EXCEPT !.mode = mode, !.llmProvider = provider]
       IN SetProvider(sid, LlmCall(ss, active,
                                   IF mode = "iterative" THEN "parse" ELSE "generate"),
                      active)

\* generateSteps returned: the rest of the run calls no LLM
ProviderStepsGenerated(sid) ==
    /\ sessions[sid].pc = "generate"
    /\ SetProvider(sid, [sessions[sid] EXCEPT !.pc = "done"], activeProviderType)

\* parseScenarioIntent returned n intentions (none: it threw)
ProviderIntentionsParsed(sid, n) ==
    /\ sessions[sid].pc = "parse"
    /\ SetProvider(sid, [sessions[sid] EXCEPT !.intentions = n,
                                              !.pc = IF n = 0 THEN "done" ELSE "loop"],
                   activeProviderType)

\* the loop reaches generateNextStep for the next intention
ProviderGenerateNextStep(sid) ==
    /\ sessions[sid].pc = "loop"
    /\ SetProvider(sid, LlmCall(sessions[sid], activeProviderType, "synth"),
                   activeProviderType)

\* generateNextStep returned; the step is approved and executed, or the run ends
ProviderStepSynthesized(sid, goesOn) ==
    /\ sessions[sid].pc = "synth"
    /\ LET left == sessions[sid].intentions - 1
       IN SetProvider(sid, [sessions[sid] EXCEPT
                               !.intentions = left,
                               !.pc = IF goesOn /\ left > 0 THEN "loop" ELSE "done"],
                      activeProviderType)

ProviderNext ==
    \/ \E sid \in DirectSessionIds, mode \in {"steps", "iterative"},
          provider \in ProviderChoices : ProviderStartTest(sid, mode, provider)
    \/ \E sid \in DirectSessionIds : ProviderStepsGenerated(sid)
    \/ \E sid \in DirectSessionIds, n \in 0 .. MaxSteps : ProviderIntentionsParsed(sid, n)
    \/ \E sid \in DirectSessionIds : ProviderGenerateNextStep(sid)
    \/ \E sid \in DirectSessionIds, goesOn \in BOOLEAN : ProviderStepSynthesized(sid, goesOn)

ProviderSpec == ProviderInit /\ [][ProviderNext]_vars

----------------------------------------------------------------------------
(* Properties of the approval manager *)

KeyOf(p) == IF p.kind = "step" THEN StepKey(p.sessionId, p.stepIndex)
            ELSE SnapshotKey(p.sessionId, p.stepIndex)
TableOf(p) == IF p.kind = "step" THEN pending ELSE snapshotApprovalState
TableOfNext(p) == IF p.kind = "step" THEN pending' ELSE snapshotApprovalState'

\* promise id is the one stored under its key
Stored(id) ==
    /\ KeyOf(promises[id]) \in DOMAIN TableOf(promises[id])
    /\ TableOf(promises[id])[KeyOf(promises[id])] = id

StoredNext(id) ==
    /\ KeyOf(promises[id]) \in DOMAIN TableOfNext(promises[id])
    /\ TableOfNext(promises[id])[KeyOf(promises[id])] = id

Unsettled(id) == promises[id].settled = "pending"

TimeoutErrors == {"Approval timeout", "Snapshot approval timeout"}

\* C1: at most one request is outstanding per key; a request that has not been
\* resolved or rejected keeps its table entry (it is never replaced by a later
\* request for the same key).
C1_OutstandingRequestKeepsItsEntry ==
    \A id \in DOMAIN promises : Unsettled(id) => Stored(id)

\* C2: cancelSession(id) rejects with a cancellation error and removes every
\* pending approval of session id, and leaves every pending approval of every
\* other session-id string exactly as it was.
C2_CancelSessionFrame ==
    [][\A sid \in ApiSessionIds :
         ApiCancelSession(sid) =>
           \A id \in DOMAIN promises :
              IF promises[id].sessionId = sid
              THEN Stored(id) =>
                     /\ promises'[id].settled = "rejected"
                     /\ promises'[id].error = "Session cancelled"
                     /\ ~StoredNext(id)
              ELSE /\ promises'[id] = promises[id]
                   /\ Stored(id) => StoredNext(id)]_vars

\* C3: a request made with a positive timeout that is neither answered nor
\* cancelled is eventually rejected with a timeout error; when its timer fires
\* its key leaves the table, so that a later respond finds no entry.
C3_TimeoutRejects ==
    /\ [](\A id \in DOMAIN promises :
            promises[id].timeoutHandle = "fired" =>
               /\ promises[id].settled = "rejected"
               /\ promises[id].error \in TimeoutErrors
               /\ ~Stored(id))
    /\ [][\A id \in DOMAIN promises :
            (promises[id].timeoutHandle = "armed"
               /\ promises'[id].timeoutHandle = "fired") =>
                 /\ KeyOf(promises[id]) \notin DOMAIN TableOfNext(promises[id])
                 /\ (promises[id].kind = "step" =>
                       ~respondToApprovalResult(
                           [pending |-> pending',
                            snapshotApprovalState |-> snapshotApprovalState',
                            promises |-> promises'],
                           promises[id].sessionId, promises[id].stepIndex))]_vars
    /\ \A id \in 1 .. MaxPromises :
          (id \in DOMAIN promises /\ promises[id].timeoutHandle = "armed")
             ~> (id \in DOMAIN promises
                   /\ promises[id].timeoutHandle \in {"fired", "cleared"})

C3_Witness ==
    /\ ret = Call("respondToApproval", FALSE)
    /\ \E id \in DOMAIN promises :
          /\ promises[id].kind = "step"
          /\ promises[id].timeoutHandle = "fired"
          /\ promises[id].error = "Approval timeout"

\* C4: respondToApproval for a key with no pending request returns false and
\* changes neither table, no promise and no timer.
C4_RespondUnknownKeyIsNoOp ==
    [][\A sid \in ApiSessionIds, i \in ApiStepIndices, r \in ApiResponses :
         (ApiRespondToApproval(sid, i, r) /\ StepKey(sid, i) \notin DOMAIN pending) =>
            /\ ret'.value = FALSE
            /\ UNCHANGED <<pending, snapshotApprovalState, promises>>]_vars

C4_Witness ==
    /\ ret = Call("respondToApproval", FALSE)
    /\ DOMAIN pending # {}
    /\ \E id \in DOMAIN promises : promises[id].timeoutHandle = "armed"

\* C5: whichever of response, cancel and timeout reaches a pending approval
\* first settles it, once; from then on its timer is disarmed and it has no
\* table entry, so that nothing arriving later acts on it.
C5_SettledOnce ==
    \A id \in DOMAIN promises :
       /\ promises[id].settleCalls <= 1
       /\ ~Unsettled(id) =>
             /\ promises[id].settleCalls = 1
             /\ promises[id].timeoutHandle # "armed"
             /\ ~Stored(id)

C5_Witness ==
    /\ ret = Call("cancelSession", FALSE)
    /\ \E id \in DOMAIN promises :
          /\ promises[id].settled = "resolved"
          /\ promises[id].timeoutHandle = "cleared"
          /\ promises[id].settleCalls = 1

\* the request of promise id was made with timeout zero (or with none: the
\* parameter defaults to 0, and the server passes approvalTimeoutSeconds || 0)
ZeroTimeout(id) == promises[id].timeoutMs = 0

\* the step answers, cancels or shuts down: the ways a wait may end
AnswersKeyOf(id) ==
    \/ \E sid \in ApiSessionIds, i \in ApiStepIndices, r \in ApiResponses :
          /\ promises[id].kind = "step"
          /\ StepKey(sid, i) = KeyOf(promises[id])
          /\ ApiRespondToApproval(sid, i, r)
    \/ \E sid \in ApiSessionIds, i \in ApiStepIndices, r \in ApiResponses :
          /\ promises[id].kind = "snapshot"
          /\ SnapshotKey(sid, i) = KeyOf(promises[id])
          /\ ApiRespondToSnapshotApproval(sid, i, r)

CancelsOrShutsDown ==
    \/ \E sid \in ApiSessionIds : ApiCancelSession(sid)
    \/ ApiClearAll

C20_RespondResolvesExactlyOne ==
    /\ [][\A sid \in ApiSessionIds, i \in ApiStepIndices, r \in ApiResponses :
            (ApiRespondToApproval(sid, i, r) /\ StepKey(sid, i) \in DOMAIN pending) =>
               LET key == StepKey(sid, i)
                   id == pending[key]
               IN /\ Unsettled(id)
                  /\ promises'[id].settled = "resolved"
                  /\ promises'[id].value = r
                  /\ promises'[id].timeoutHandle \in {"none", "cleared"}
                  /\ ret'.value = TRUE
                  /\ DOMAIN pending' = DOMAIN pending \ {key}
                  /\ \A k \in DOMAIN pending' : pending'[k] = pending[k]
                  /\ snapshotApprovalState' = snapshotApprovalState
                  /\ \A other \in DOMAIN promises \ {id} :
                        promises'[other] = promises[other]]_vars
    /\ [](\A id \in DOMAIN promises :
            promises[id].settled = "resolved" =>
               /\ promises[id].timeoutHandle \in {"none", "cleared"}
               /\ promises[id].error = "")

C20_Witness ==
    /\ ret = Call("respondToApproval", TRUE)
    /\ DOMAIN pending # {}
    /\ \E id \in DOMAIN promises :
          /\ promises[id].settled = "resolved"
          /\ promises[id].value = Response(TRUE, FALSE)
          /\ promises[id].timeoutHandle = "cleared"

----------------------------------------------------------------------------
(* Properties of the session loops *)

IsSkipped(r) == r.status = "skipped"
IsSkipUpdate(e) == e.type = "step:execution_update" /\ e.status = "skipped"

\* skipped StepResults of the session: in session.results or sent to the
\* client in a step:execution_update
SkippedCount(ss) ==
    Len(SelectSeq(ss.results, IsSkipped)) + Len(SelectSeq(ss.events, IsSkipUpdate))

\* number of steps (batch) or intentions (iterative) of the scenario
WorkItems(ss) ==
    IF ss.mode = "batch" THEN Len(ss.generatedSteps) ELSE Len(ss.intentions)

\* the loop of sid is about to continue from an approval wait that ended with...
ResumesRejected(sid) ==
    /\ ResumeDue(sid)
    /\ promises[sessions[sid].awaiting].settled = "resolved"
    /\ ~promises[sessions[sid].awaiting].value.approved

ResumesTimedOut(sid) ==
    /\ ResumeDue(sid)
    /\ promises[sessions[sid].awaiting].settled = "rejected"
    /\ promises[sessions[sid].awaiting].error = "Approval timeout"

\* the step is not executed, it is recorded as skipped, and the loop goes on to
\* the next intention (it ends only when there is none left, and then completed)
SkippedAndContinues(sid) ==
    LET ss == sessions[sid]
        tt == sessions'[sid]
    IN /\ tt.executions = ss.executions
       /\ SkippedCount(tt) = SkippedCount(ss) + 1
       /\ tt.status \notin {"failed", "cancelled"}
       /\ tt.pc = "done" =>
             /\ ss.i + 1 >= WorkItems(ss)
             /\ (~ss.driverFailed /\ ~ss.cancelSignal) => tt.state = "completed"

\* C6: a step whose approval response has approved = false is not executed, a
\* skipped StepResult is recorded for it, and the loop proceeds to the next
\* intention; the session still completes if nothing else fails.
C6_RejectedStepIsSkipped ==
    [][\A sid \in SessionIds : ResumesRejected(sid) => SkippedAndContinues(sid)]_vars

\* C7: in the iterative loop, once the driver has returned a failed result for
\* the k-th executed step the run has ended with status failed, holds exactly k
\* results (the last one failed, the others passed), and exactly k steps were
\* ever synthesized.
C7_FailFast ==
    \A sid \in SessionIds :
       LET ss == sessions[sid]
           k == Len(ss.executedSteps)
       IN (ss.mode = "iterative" /\ ss.driverFailed) =>
             /\ ss.pc = "done"
             /\ ss.status = "failed"
             /\ Len(ss.runResults) = k
             /\ ss.runResults[k].status = "failed"
             /\ \A j \in 1 .. k - 1 : ss.runResults[j].status = "passed"
             /\ ss.generated = k
             /\ ss.executions = k

C7_Witness ==
    \E sid \in SessionIds :
       /\ sessions[sid].mode = "iterative"
       /\ sessions[sid].driverFailed
       /\ Len(sessions[sid].runResults) < Len(sessions[sid].intentions)
       /\ ~sessions[sid].cancelSignal

\* C8: an approval wait that times out counts as a rejection and is not fatal:
\* the step is not executed, it is skipped, and the loop continues.
C8_TimeoutIsASkip ==
    [][\A sid \in SessionIds : ResumesTimedOut(sid) => SkippedAndContinues(sid)]_vars

\* C9: after the cancel-session signal no new step of the session is
\* synthesized, submitted for approval or executed.
C9_NothingNewAfterCancel ==
    [][\A sid \in SessionIds :
         sessions[sid].cancelSignal =>
            /\ sessions'[sid].generated = sessions[sid].generated
            /\ sessions'[sid].requested = sessions[sid].requested
            /\ sessions'[sid].executions = sessions[sid].executions]_vars

TerminalStates == {"completed", "failed", "cancelled"}

\* C10: once the state of a session is completed, failed or cancelled it never
\* changes again.
C10_TerminalStatesAreFinal ==
    [][\A sid \in SessionIds :
         sessions[sid].state \in TerminalStates =>
            sessions'[sid].state = sessions[sid].state]_vars

----------------------------------------------------------------------------
(* Properties of the page-aware loop *)

IsRunEvent(e) ==
    e.type \in {"step:approval_request", "step:execution_update", "snapshot:captured"}

\* what the client saw of the run, in order
RunEventTypes(ss) ==
    LET ev == SelectSeq(ss.events, IsRunEvent)
    IN [j \in 1 .. Len(ev) |-> ev[j].type]

\* the promises session sid has awaited were all resolved with approved = true
AllApproved(sid) ==
    \A id \in DOMAIN promises :
       promises[id].sessionId = sid =>
          /\ promises[id].settled = "resolved"
          /\ promises[id].value.approved

\* the iterative run of sid is over, nothing was rejected, cancelled or timed
\* out, and no step failed or raised an error
EndedAllApprovedAndPassing(sid) ==
    LET ss == sessions[sid]
    IN /\ ss.mode = "iterative"
       /\ ss.pc = "done"
       /\ ~ss.cancelSignal
       /\ AllApproved(sid)
       /\ \A j \in 1 .. Len(ss.runResults) : ss.runResults[j].status = "passed"

NavThenAct == <<"nav", "act">>

NavThenActOrder ==
    << "step:approval_request", "step:execution_update", "snapshot:captured",
       "step:approval_request", "step:execution_update" >>

\* C11: for the intentions [navigation, non-navigation] with every step approved
\* and passing, the run synthesizes a step without page context and executes
\* it, captures one snapshot, synthesizes a step with that snapshot as context
\* and executes it (a page-changing second step is followed by a fresh
\* snapshot); it ends completed with exactly 2 StepResults, both passed.
C11_NavThenActRun ==
    \A sid \in SessionIds :
       LET ss == sessions[sid]
       IN (EndedAllApprovedAndPassing(sid) /\ ss.intentions = NavThenAct) =>
             /\ ss.status = "completed"
             /\ ss.state = "completed"
             /\ Len(ss.runResults) = 2
             /\ ss.results = ss.runResults
             /\ ss.generated = 2
             /\ ss.executions = 2
             /\ ss.executedSteps = ss.steps
             /\ ss.contexts[1] = NoSnapshot
             /\ ss.contexts[2].id = 1
             /\ RunEventTypes(ss) =
                   NavThenActOrder \o
                     (IF isPageChangingAction(ss.steps[2].action)
                      THEN <<"snapshot:captured">> ELSE <<>>)
             /\ ss.snapshots =
                   IF isPageChangingAction(ss.steps[2].action) THEN 2 ELSE 1

C11_Witness ==
    \E sid \in SessionIds :
       /\ EndedAllApprovedAndPassing(sid)
       /\ sessions[sid].intentions = NavThenAct
       /\ Len(sessions[sid].runResults) = 2
       /\ sessions[sid].steps[2] = Step("fill", PageSelector, "llm")
       /\ sessions[sid].snapshots = 1

\* the target of the step is meant to be a selector (that of a goto is a URL)
TargetIsSelector(step) == step.action # "goto"

\* the step was synthesized from the snapshot: it is the error sentinel or its
\* selector is that of an element of the snapshot
DrawnFrom(step, snapshot) ==
    \/ step = ErrorStep
    \/ step.target \in snapshot.elements

\* C12: every step synthesized with a page snapshot as context and submitted
\* for approval or executed is the error sentinel or has the selector of an
\* element of that snapshot; a step whose selector the snapshot does not hold
\* is never executed.
C12_SelectorsComeFromSnapshot ==
    \A sid \in SessionIds :
       LET ss == sessions[sid]
       IN /\ \A j \in 1 .. Len(ss.steps) :
                (ss.contexts[j] # NoSnapshot /\ TargetIsSelector(ss.steps[j])) =>
                   DrawnFrom(ss.steps[j], ss.contexts[j])
          /\ \A j \in 1 .. Len(ss.executedSteps) :
                (ss.contexts[j] # NoSnapshot /\ TargetIsSelector(ss.executedSteps[j])) =>
                   DrawnFrom(ss.executedSteps[j], ss.contexts[j])

IsTerminalUpdate(e) ==
    /\ e.type = "step:execution_update"
    /\ e.status \in {"completed", "failed", "skipped"}

\* the outcome of every step the loop of ss has dealt with so far is recorded:
\* batch sends one closing step:execution_update per step index, the iterative
\* loop pushes one result per execution (a rejection ends it)
PreviousRecorded(ss) ==
    IF ss.mode = "batch"
    THEN Len(SelectSeq(ss.events, IsTerminalUpdate)) = ss.i
    ELSE Len(ss.runResults) = ss.executions /\ Len(ss.results) = ss.executions

\* C13: within one session execution is strictly sequential: a step begins
\* executing only when no driver call of the session is in flight and the
\* result or rejection of the previous step is recorded; at most one driver
\* call of the session is in flight at any time.
C13_StrictlySequential ==
    /\ [](\A sid \in SessionIds : sessions[sid].inFlight \in {0, 1})
    /\ [][\A sid \in SessionIds :
            sessions'[sid].executions # sessions[sid].executions =>
               /\ sessions[sid].inFlight = 0
               /\ sessions'[sid].executions = sessions[sid].executions + 1
               /\ PreviousRecorded(sessions[sid])]_vars

C13_Witness ==
    \E sid \in SessionIds :
       /\ sessions[sid].mode = "batch"
       /\ sessions[sid].pc = "b_exec"
       /\ sessions[sid].i = 1
       /\ sessions[sid].inFlight = 1
       /\ sessions[sid].executions = 2

\* browsers opened for the session that are open
OpenBrowsers(ss) == (IF ss.browserOpen THEN 1 ELSE 0) + ss.orphanBrowsers

\* C15: when the loop of a session has exited (completed, failed, cancelled or
\* by exception) no browser opened for the session remains open, whenever a
\* cancel-session signal arrived.
C15_BrowserReleasedOnExit ==
    \A sid \in SessionIds :
       sessions[sid].pc = "done" => OpenBrowsers(sessions[sid]) = 0

\* the loop of sid is about to continue from an approval that was granted with
\* an edited step
ResumesWithModifiedStep(sid) ==
    /\ ResumeDue(sid)
    /\ promises[sessions[sid].awaiting].settled = "resolved"
    /\ promises[sessions[sid].awaiting].value.approved
    /\ promises[sessions[sid].awaiting].value.modified

\* the driver returns a result for a step whose approval carried an edited step
RecordsResultOfModifiedStep(sid) ==
    /\ sessions[sid].pc \in {"b_exec", "i_navexec", "i_exec"}
    /\ promises[sessions[sid].awaiting].value.modified
    /\ Len(sessions'[sid].results) = Len(sessions[sid].results) + 1
    /\ sessions'[sid].results[Len(sessions'[sid].results)].status \in {"passed", "failed"}

\* C16: when an approval response has approved = true and carries a modified
\* step, the step that is executed and recorded is the modified step and not
\* the synthesized one, in batch and in iterative mode.
C16_ModifiedStepIsExecuted ==
    [][\A sid \in SessionIds :
         /\ ResumesWithModifiedStep(sid) =>
               /\ sessions'[sid].executions = sessions[sid].executions + 1
               /\ sessions'[sid].step = ModifiedStep
         /\ RecordsResultOfModifiedStep(sid) =>
               sessions'[sid].results[Len(sessions'[sid].results)].step = ModifiedStep]_vars

\* a snapshot approval request of sid is stored in the manager
SnapshotApprovalPending(sid) ==
    \E k \in DOMAIN snapshotApprovalState : SnapshotKeyOfSession(k, sid)

SnapshotApprovalPendingNext(sid) ==
    \E k \in DOMAIN snapshotApprovalState' : SnapshotKeyOfSession(k, sid)

HasEvent(ss, type) == \E j \in DOMAIN ss.events : ss.events[j].type = type

\* C21: when snapshot approval is enabled for an iterative session, every
\* captured snapshot causes a snapshot approval request to be emitted to the
\* client, and no next step is synthesized while that request is unanswered.
C21_SnapshotApprovalAwaited ==
    [][\A sid \in SessionIds :
         sessions[sid].showSnapshotsForApproval =>
            /\ sessions'[sid].snapshots = sessions[sid].snapshots + 1 =>
                  /\ HasEvent(sessions'[sid], "snapshot:approval_request")
                  /\ SnapshotApprovalPendingNext(sid)
                  /\ sessions'[sid].pc \notin {"i_navsynth", "i_synth"}
            /\ sessions'[sid].generated = sessions[sid].generated + 1 =>
                  ~SnapshotApprovalPending(sid)]_vars

\* the step taken records a driver result with status failed for sid
RecordsFailedResult(sid) ==
    /\ Len(sessions'[sid].results) = Len(sessions[sid].results) + 1
    /\ sessions'[sid].results[Len(sessions'[sid].results)].status = "failed"

\* C22: in both human-in-loop modes, when a step's result is failed the
\* session's state moves from executing to failed, and no further step of the
\* session is submitted for approval or executed.
C22_FailedResultFailsSession ==
    [][\A sid \in SessionIds :
         /\ RecordsFailedResult(sid) =>
               /\ sessions[sid].state = "executing"
               /\ sessions'[sid].state = "failed"
         /\ sessions[sid].driverFailed =>
               /\ sessions'[sid].requested = sessions[sid].requested
               /\ sessions'[sid].executions = sessions[sid].executions]_vars

RECURSIVE FailedCount(_)
FailedCount(results) ==
    IF results = <<>> THEN 0
    ELSE (IF results[1].status = "failed" THEN 1 ELSE 0) + FailedCount(Tail(results))

\* the step taken is a throw inside the try block of the intention at hand:
\* generateNextStep throws, or execute returns no result and reading the status
\* of result.steps[0] throws
SynthesisOrExecutionThrows(sid) ==
    /\ sessions[sid].mode = "iterative"
    /\ \/ StepSynthesisFailed(sid)
       \/ StepExecuted(sid, "noresult")

\* C23: if synthesizing or executing the step of an intention throws, exactly
\* one StepResult with status failed is recorded for that intention, the loop
\* stops and the run status is failed.
C23_ThrowIsOneFailedResult ==
    /\ [][\A sid \in SessionIds :
            /\ SynthesisOrExecutionThrows(sid) =>
                  LET before == sessions[sid].runResults
                      after == sessions'[sid].runResults
                  IN /\ FailedCount(before) = 0
                     /\ FailedCount(after) = 1
                     /\ after[Len(after)] =
                           Result(Step("error", "", "catch"), "failed", "caught")
                     /\ sessions'[sid].pc = "done"
                     /\ sessions'[sid].status = "failed"
                     /\ sessions'[sid].generated = sessions[sid].generated
                     /\ sessions'[sid].requested = sessions[sid].requested
                     /\ sessions'[sid].executions = sessions[sid].executions
            /\ sessions[sid].pc = "done" =>
                  /\ sessions'[sid].runResults = sessions[sid].runResults
                  /\ sessions'[sid].status = sessions[sid].status]_vars
    /\ [](\A sid \in SessionIds : FailedCount(sessions[sid].runResults) <= 1)

C23_Witness ==
    \E sid \in SessionIds :
       LET ss == sessions[sid]
       IN /\ ss.pc = "done"
          /\ ss.status = "failed"
          /\ Len(ss.runResults) >= 2
          /\ ss.runResults[1].status = "passed"
          /\ ss.runResults[Len(ss.runResults)].from = "caught"
          /\ ss.generated = 1
          /\ ss.snapshots = 1
          /\ ~ss.cancelSignal

\* the step taken is a snapshot capture that fails totally: it is entered while
\* the executor has no page, or the driver fails while the page is read
SnapshotFailsTotally(sid) ==
    \/ PageSettled(sid) /\ ~sessions[sid].browserOpen
    \/ SnapshotCaptured(sid, ErrorCapture)

\* C24: a snapshot capture that fails totally (no page loaded, or a driver
\* error) returns a snapshot with no elements and an error title and does not
\* throw: the failure alone does not fail the step or the session.
C24_SnapshotFailureIsAnErrorSnapshot ==
    [][\A sid \in SessionIds :
         SnapshotFailsTotally(sid) =>
            /\ sessions'[sid].snapshots = sessions[sid].snapshots + 1
            /\ sessions'[sid].currentPageSnapshot.elements = {}
            /\ sessions'[sid].currentPageSnapshot.title = ErrorTitle
            /\ sessions'[sid].status = sessions[sid].status
            /\ FailedCount(sessions'[sid].runResults)
                  = FailedCount(sessions[sid].runResults)]_vars

\* the actions the property calls page-changing (navigate is the goto action)
PageChangingActions == {"click", "submit", "goto", "select", "check", "uncheck"}

\* generateNextStep is about to be (or has been) called for the next step
SynthesisDue(ss) == ss.pc \in {"i_navsynth", "i_synth"}

\* the step executed last ran in the no-context navigation path
LastStepWasNavigationPath(ss) == ss.contexts[Len(ss.executedSteps)] = NoSnapshot

\* a snapshot newer than the one the last executed step was synthesized with
FreshSnapshot(ss) ==
    ss.currentPageSnapshot.id > ss.contexts[Len(ss.executedSteps)].id

SnapshotUnchanged(ss) ==
    ss.currentPageSnapshot = ss.contexts[Len(ss.executedSteps)]

\* C25: after a step whose action is page-changing has executed, a fresh
\* snapshot is captured and replaces the previous one before the next step is
\* synthesized; after a step with any other action the current snapshot is
\* left unchanged.
C25_SnapshotFollowsPageChange ==
    \A sid \in SessionIds :
       LET ss == sessions[sid]
       IN (SynthesisDue(ss) /\ ss.executedSteps # <<>>) =>
             IF ss.executedSteps[Len(ss.executedSteps)].action \in PageChangingActions
             THEN FreshSnapshot(ss)
             ELSE SnapshotUnchanged(ss)

\* C25 (amended): as C25, except that after the step of the no-context
\* navigation path the first snapshot is captured whatever the step's action.
C25_SnapshotFollowsPageChangeOrNavigation ==
    \A sid \in SessionIds :
       LET ss == sessions[sid]
       IN (SynthesisDue(ss) /\ ss.executedSteps # <<>>) =>
             IF \/ ss.executedSteps[Len(ss.executedSteps)].action \in PageChangingActions
                \/ LastStepWasNavigationPath(ss)
             THEN FreshSnapshot(ss)
             ELSE SnapshotUnchanged(ss)

C25_Witness ==
    \E sid \in SessionIds :
       LET ss == sessions[sid]
       IN /\ SynthesisDue(ss)
          /\ Len(ss.executedSteps) = 2
          /\ ss.executedSteps[2].action = "goto"
          /\ ss.contexts[2].id = 1
          /\ ss.currentPageSnapshot.id = 2

\* the intention at hand has a navigation keyword or is the first one
NavigationKeywordOrFirst(ss) == ss.intentions[ss.i + 1] = "nav" \/ ss.i = 0

\* C26: an intention is handled by the no-context navigation path exactly when
\* (it contains a navigation keyword or it is the first intention) and no
\* snapshot exists yet for the session; every step synthesized once a snapshot
\* exists is synthesized with the most recently captured snapshot as context.
C26_NavigationPathOnlyWithoutSnapshot ==
    /\ [](\A sid \in SessionIds :
            LET ss == sessions[sid]
            IN SynthesisDue(ss) =>
                  (ss.pc = "i_navsynth"
                     <=> (NavigationKeywordOrFirst(ss) /\ ss.snapshots = 0)))
    /\ [][\A sid \in SessionIds :
            sessions'[sid].generated = sessions[sid].generated + 1 =>
               LET ss == sessions[sid]
                   context == sessions'[sid].contexts[Len(sessions'[sid].contexts)]
               IN IF ss.snapshots = 0
                  THEN context = NoSnapshot
                  ELSE /\ context = ss.currentPageSnapshot
                       /\ context.id = ss.snapshots]_vars

C26_Witness ==
    \E sid \in SessionIds :
       LET ss == sessions[sid]
       IN /\ ss.pc = "i_wait"
          /\ ss.i = 1
          /\ ss.intentions[2] = "nav"
          /\ ss.snapshots >= 1
          /\ ss.contexts[Len(ss.contexts)].id = ss.snapshots

\* the three ways the response to the intent prompt can be unusable
ContainsNoJsonArray(response) ==
    ~\E a, b \in DOMAIN response :
        a < b /\ response[a] = "[" /\ response[b] = "]"

ContainsEmptyArray(response) == JsonMatch(Cleaned(response)) = <<"[", "]">>

ContainsInvalidJson(response) ==
    /\ JsonMatch(Cleaned(response)) # <<>>
    /\ ~IsJsonArray(JsonMatch(Cleaned(response)))

Unusable(response) ==
    \/ ContainsNoJsonArray(response)
    \/ ContainsEmptyArray(response)
    \/ ContainsInvalidJson(response)

NothingSynthesized(ss) ==
    /\ ss.generated = 0
    /\ ss.requested = 0
    /\ ss.executions = 0
    /\ ss.steps = <<>>

\* C27: if the intent parser's model response contains no JSON array, an empty
\* array or invalid JSON, the run ends with status failed and no step is
\* synthesized, submitted for approval or executed.
C27_UnusableIntentResponseFailsRun ==
    /\ [][\A sid \in SessionIds :
            (IntentionsParsed(sid) /\ Unusable(sessions[sid].llmResponse.content)) =>
               /\ sessions'[sid].pc = "done"
               /\ sessions'[sid].status = "failed"
               /\ sessions'[sid].fatalError # ""
               /\ NothingSynthesized(sessions'[sid])]_vars
    /\ [](\A sid \in SessionIds :
            sessions[sid].fatalError # "" =>
               /\ sessions[sid].pc = "done"
               /\ sessions[sid].status = "failed"
               /\ NothingSynthesized(sessions[sid]))

C27_Witness ==
    \E sid \in SessionIds :
       /\ sessions[sid].fatalError = "Failed to parse intentions"
       /\ sessions[sid].status = "failed"
       /\ HasEvent(sessions[sid], "session:completed")

ActiveStates == {"generating", "awaiting_approval", "executing"}

NoApprovalTimedOut ==
    \A id \in DOMAIN promises : promises[id].error \notin TimeoutErrors

\* the loop of the session has ended because of an error that is not an
\* approval timeout (and not after a cancel): step generation threw (batch), or
\* the run returned status failed (iterative: intent-parse, synthesis, driver
\* or snapshot error)
EndedByError(ss) ==
    /\ ss.pc = "done"
    /\ ~ss.cancelSignal
    /\ NoApprovalTimedOut
    /\ \/ ss.mode = "batch" /\ ~HasEvent(ss, "steps:generated")
       \/ ss.mode = "iterative" /\ ss.status = "failed"

\* C28: every error other than an approval timeout that ends a human-in-loop
\* session causes an error event for that session to be emitted to the client
\* and the session to leave its active states.
C28_ErrorsAreSurfaced ==
    \A sid \in SessionIds :
       EndedByError(sessions[sid]) =>
          /\ HasEvent(sessions[sid], "error")
          /\ sessions[sid].state \notin ActiveStates

\* a step approval request of sid is stored in the manager
StepApprovalPending(sid) ==
    \E k \in DOMAIN pending : StepKeyOfSession(k, sid)

\* C29: whenever a step approval request of a session is pending in the manager
\* the session's state is awaiting_approval, and whenever one of its steps is
\* being executed the state is executing, in batch and in iterative mode.
C29_StateTracksTheLoop ==
    \A sid \in SessionIds :
       /\ StepApprovalPending(sid) => sessions[sid].state = "awaiting_approval"
       /\ sessions[sid].inFlight > 0 => sessions[sid].state = "executing"

IsPrefix(s1, s2) == Len(s1) <= Len(s2) /\ SubSeq(s2, 1, Len(s1)) = s1

\* the results pushed for driver calls: all but those of the catch block
DriverResults(ss) == SelectSeq(ss.runResults, LAMBDA r : r.from # "caught")

WellFormedResult(r) == r.status \in {"passed", "failed", "skipped"}

\* C30: the run's result list is append-only and holds exactly one well-formed
\* StepResult (status passed, failed or skipped) per executed step, in
\* execution order, for every outcome of the driver call including a browser
\* that cannot be launched.
C30_OneResultPerExecutedStep ==
    /\ [][\A sid \in SessionIds :
            IsPrefix(sessions[sid].runResults, sessions'[sid].runResults)]_vars
    /\ [](\A sid \in SessionIds :
            LET ss == sessions[sid]
            IN /\ \A j \in DOMAIN ss.runResults : WellFormedResult(ss.runResults[j])
               /\ ss.inFlight = 0 =>
                     /\ Len(DriverResults(ss)) = Len(ss.executedSteps)
                     /\ \A j \in DOMAIN ss.executedSteps :
                           DriverResults(ss)[j].step = ss.executedSteps[j])

----------------------------------------------------------------------------
(* Properties of concurrent sessions *)

\* C14: concurrent sessions never share a browser or page handle: every driver
\* action of a session runs on a page opened for that session.
C14_ExclusiveHandles ==
    \A sid \in DOMAIN sessions :
       /\ sessions[sid].actionPage \in {NoHandle, sid}
       /\ \A j \in 1 .. Len(sessions[sid].driverPages) :
             sessions[sid].driverPages[j] = sid

----------------------------------------------------------------------------
(* Properties of the selector synthesizers *)

\* C17: for every element that has a data-testid attribute, every selector
\* synthesizer returns exactly [data-testid="<value>"], whatever other
\* attributes the element has.
C17_TestIdFirst ==
    (synthesis.by # "none" /\ synthesis.element.dataTestid.present) =>
       synthesis.selector =
          AttributeSelector(DataTestId, synthesis.element.dataTestid.value)

SpecialChars == {":", "/", "[", "]", "@", "!", "#"}

\* a bare class selector that holds one of the characters : / [ ] @ ! #
ProblematicSelector(selector) ==
    /\ selector # <<>>
    /\ Head(selector) = "."
    /\ \E i \in 1 .. Len(selector) : selector[i] \in SpecialChars

\* C18: no synthesizer emits a bare .class selector for a class string that
\* holds one of the characters : / [ ] @ ! #, so no snapshot element carries
\* such a selector.
C18_NoProblematicClassSelector ==
    synthesis.by # "none" => ~ProblematicSelector(synthesis.selector)

\* C32: every element of a snapshot captured by the iterative orchestrator
\* carries the selector that generateOptimalSelector produces for the same
\* attributes, tag, text and role (ids with a run of ten or more digits
\* skipped).
C32_SnapshotSelectorIsOptimal ==
    synthesis.by = "generateSelector" =>
        synthesis.selector =
            generateOptimalSelector(Attributes(synthesis.element), synthesis.element.tag,
                                    synthesis.element.text, synthesis.element.role)

----------------------------------------------------------------------------
(* Properties of the events a session emits *)

\* the events of a session without the session:status updates
ClientEvents(ss) == SelectSeq(ss.events, LAMBDA ev : ev.type # "session:status")

FinalUpdate(ev, i) ==
    /\ ev.type = "step:execution_update"
    /\ ev.stepIndex = i
    /\ ev.status \in {"skipped", "completed", "failed"}

\* the approval request of step i of session sid was settled in one of the
\* given ways
StepRequestSettled(sid, i, settlements) ==
    \E id \in DOMAIN promises :
        /\ promises[id].kind = "step"
        /\ promises[id].sessionId = sid
        /\ promises[id].stepIndex = i
        /\ promises[id].settled \in settlements

\* the order of the events of a batch session, where the updates of a step
\* follow a settlement of its request in one of the given ways
BatchEventOrder(sid, settlements) ==
    LET ss == sessions[sid]
        E == ClientEvents(ss)
        IsRequest(k) == E[k].type = "step:approval_request"
    IN ss.mode = "batch" =>
         \A k \in DOMAIN E :
            /\ (k = 1) <=> (E[k].type = "session:created")
            /\ E[k].type = "steps:generated" => k = 2
            /\ E[k].type \in {"step:approval_request", "step:execution_update",
                              "session:completed"} =>
                  k > 2 /\ E[2].type = "steps:generated"
            /\ IsRequest(k) =>
                  /\ E[k].stepIndex = Cardinality({j \in 1 .. k - 1 : IsRequest(j)})
                  /\ E[k].stepIndex > 0 =>
                        \E j \in 1 .. k - 1 : FinalUpdate(E[j], E[k].stepIndex - 1)
            /\ E[k].type = "step:execution_update" =>
                  /\ \E j \in 1 .. k - 1 : IsRequest(j) /\ E[j].stepIndex = E[k].stepIndex
                  /\ \A j \in 1 .. k - 1 : IsRequest(j) => E[j].stepIndex <= E[k].stepIndex
                  /\ StepRequestSettled(sid, E[k].stepIndex, settlements)
            /\ E[k].type = "session:completed" => k = Len(E)

\* C33: in batch human-in-loop mode the server emits session:created, then
\* steps:generated, then for each step index in increasing order an approval
\* request followed, only after a response for that index, by the step's
\* execution updates; the request for i+1 never precedes the final update for
\* i, and session:completed is the last event.
C33_BatchEventOrder ==
    \A sid \in SessionIds : BatchEventOrder(sid, {"resolved"})

\* C33 as the code has it: the updates of a step follow the settlement of its
\* request, by a response of the client or by a rejection (timeout, cancel).
C33_BatchEventOrderAfterSettlement ==
    \A sid \in SessionIds : BatchEventOrder(sid, {"resolved", "rejected"})

\* a batch run of two steps that completed: the first request timed out, the
\* second was approved and its step executed
C33_Witness ==
    \E sid \in SessionIds :
        /\ sessions[sid].mode = "batch"
        /\ sessions[sid].pc = "done"
        /\ Len(sessions[sid].generatedSteps) = 2
        /\ HasEvent(sessions[sid], "session:completed")
        /\ \E j \in DOMAIN sessions[sid].events :
              sessions[sid].events[j] = Event("step:execution_update", 1, "completed")
        /\ \E id \in DOMAIN promises :
              /\ promises[id].stepIndex = 0
              /\ promises[id].settled = "rejected"
              /\ promises[id].timeoutHandle # "cleared"
        /\ ~sessions[sid].cancelSignal

\* no approval request of session sid is in a table of the manager
NoApprovalPending(sid) ==
    \A id \in DOMAIN promises : promises[id].sessionId = sid => ~Stored(id)

Terminated(sid) ==
    /\ sessions[sid].pc = "done"
    /\ sessions[sid].state \in {"completed", "cancelled"}
    /\ HasEvent(sessions[sid], "session:completed") \/ HasEvent(sessions[sid], "error")

\* C34: with a positive approval timeout, when every LLM and driver call
\* returns, a human-in-loop session eventually reaches a terminal state and
\* has emitted session:completed or error, whether or not the client answers,
\* and from then on no approval of the session is pending.
C34_SessionTerminates ==
    \A sid \in SessionIds :
        /\ (sessions[sid].pc # "idle" /\ sessions[sid].timeoutMs > 0)
              ~> Terminated(sid)
        /\ []((sessions[sid].pc = "done" /\ sessions[sid].timeoutMs > 0) =>
                 (Terminated(sid) /\ NoApprovalPending(sid)))

\* a session ended though the client answered nothing: each of its requests
\* timed out
C34_Witness ==
    \E sid \in SessionIds :
        /\ Terminated(sid)
        /\ sessions[sid].timeoutMs > 0
        /\ ~sessions[sid].cancelSignal
        /\ sessions[sid].requested = MaxSteps
        /\ Len(promises) = MaxSteps
        /\ \A id \in DOMAIN promises :
              promises[id].sessionId = sid /\ promises[id].timeoutHandle = "fired"

\* the StepResults that executed steps produced in a run of the orchestrator
ExecutedResults(ss) == SelectSeq(ss.runResults, LAMBDA r : r.from = "driver")

\* C36: the results carried by session:completed (session.results when the
\* event is emitted) are exactly the StepResults produced during the session,
\* one per executed step and in execution order, in batch human-in-loop,
\* iterative and non-human-in-loop mode.
C36_CompletedCarriesTheResults ==
    \A sid \in DOMAIN sessions :
        LET ss == sessions[sid]
        IN HasEvent(ss, "session:completed") =>
              /\ \A j \in DOMAIN ss.results : ss.results[j].status \in {"passed", "failed"}
              /\ ss.mode \in {"iterative", "direct"} => ss.results = ExecutedResults(ss)
              /\ ss.mode = "batch" =>
                    /\ Len(ss.results) <= ss.executions
                    /\ \A j \in DOMAIN ss.results : ss.results[j].from = "driver"

\* the step approval requests of session sid, in the order they were made
StepRequests(sid) ==
    SelectSeq(promises, LAMBDA p : p.kind = "step" /\ p.sessionId = sid)

\* C37: within one session the server requests approval for the step indices
\* 0, 1, 2, ... in strictly increasing order, and never calls requestApproval
\* for a key while a request under that key is pending.
C37_RequestsInOrderOnFreeKeys ==
    /\ [](\A sid \in SessionIds :
            \A k \in DOMAIN StepRequests(sid) : StepRequests(sid)[k].stepIndex = k - 1)
    /\ [][Len(promises') = Len(promises) + 1 =>
            LET p == promises'[Len(promises')]
            IN p.kind = "step" =>
                  StepKey(p.sessionId, p.stepIndex) \notin DOMAIN pending]_vars

\* a session made its second request after the first was settled
C37_Witness ==
    \E sid \in SessionIds :
        /\ Len(StepRequests(sid)) = 2
        /\ StepRequests(sid)[1].settled # "pending"
        /\ StepRequests(sid)[2].settled = "pending"
        /\ StepKey(sid, 1) \in DOMAIN pending

\* C38: after WebSocketServer.close() every pending step and snapshot
\* approval has been rejected and both pending tables are empty, and no
\* session that was running at shutdown registers a new approval request
\* afterwards.
C38_ShutdownEndsApprovals ==
    [][/\ close =>
             /\ pending' = EmptyMap /\ snapshotApprovalState' = EmptyMap
             /\ \A id \in DOMAIN promises' : promises'[id].settled # "pending"
       /\ Closed => Len(promises') = Len(promises)]_vars

----------------------------------------------------------------------------
(* Properties of StepExecutorService.execute *)

\* execute has left its loop for session sid: it cleans up or has returned
ExecuteLeftLoop(ss) ==
    ss.status # "none" /\ ss.pc \in {"d_closepage", "d_closebrowser", "done"}

\* C39: execute runs the given steps in order and stops at the first step
\* whose result is failed: the results are those of the steps up to and
\* including that one, no later step is performed, and the overall status is
\* passed only if every given step was executed and passed.
C39_ExecuteStopsAtFirstFailure ==
    \A sid \in DirectSessionIds :
        LET ss == sessions[sid]
            n == Len(ss.runResults)
        IN /\ n <= Len(ss.generatedSteps)
           /\ \A j \in 1 .. n : ss.runResults[j].step = ss.generatedSteps[j]
           /\ \A j \in 1 .. n - 1 : ss.runResults[j].status = "passed"
           /\ ss.executions <= n + ss.inFlight
           /\ ExecuteLeftLoop(ss) =>
                 /\ n < Len(ss.generatedSteps) =>
                       \/ ss.status = "error"
                       \/ n > 0 /\ ss.runResults[n].status = "failed"
                 /\ ss.status = "passed" =>
                       /\ n = Len(ss.generatedSteps)
                       /\ \A j \in 1 .. n : ss.runResults[j].status = "passed"

\* execute stopped after the first of two steps, which failed in the driver
C39_Witness ==
    \E sid \in DirectSessionIds :
        /\ ExecuteLeftLoop(sessions[sid])
        /\ Len(sessions[sid].generatedSteps) = 2
        /\ Len(sessions[sid].runResults) = 1
        /\ sessions[sid].runResults[1] =
              Result(sessions[sid].generatedSteps[1], "failed", "driver")
        /\ sessions[sid].status = "failed"
        /\ sessions[sid].executions = 1

----------------------------------------------------------------------------
(* Properties of the provider choice *)

\* C35: every LLM call made for a session uses the provider chosen for that
\* session, also while another session that chose a different provider runs.
C35_SessionUsesItsProvider ==
    \A sid \in DirectSessionIds :
        sessions[sid].llmProvider \in RegisteredProviders =>
            \A k \in DOMAIN sessions[sid].llmCalls :
                sessions[sid].llmCalls[k] = sessions[sid].llmProvider

----------------------------------------------------------------------------
(* Properties of the synthesizer's prompt *)

SelectorListed(selector, text) ==
    \E k \in DOMAIN text :
        /\ text[k].line = "element"
        /\ \E q \in DOMAIN text[k].parts :
              text[k].parts[q] = [part |-> "selector", value |-> selector]

\* C31: when a snapshot is supplied to the step synthesizer, the prompt lists
\* the selector of every element of the snapshot, whatever the number and the
\* kind of its elements.
C31_PromptListsEverySelector ==
    prompt.formatted =>
        \A j \in DOMAIN prompt.snapshot.elements :
            SelectorListed(prompt.snapshot.elements[j].selector, prompt.text)


====
